---- MODULE Spec2Model ----
(***************************************************************************)
(* Model of mlflow/store/model_registry/abstract_store.py: the prompt      *)
(* adaptation layer of AbstractStore, its link merge protocol and the      *)
(* model version status poller.                                            *)
(*                                                                         *)
(* Python values are modelled as records so that conversions are real:     *)
(*   - a version argument is [t, s]: its Python type ("int", "str",        *)
(*     "none") and its decimal text, so str() and int() change the type    *)
(*     and may fail;                                                       *)
(*   - the text of the linked-prompts tag is [kind, style, items]: whether *)
(*     it is a JSON array, how it is formatted, and the objects written in *)
(*     it, so json.loads / json.dumps normalise the formatting and two     *)
(*     texts of the same array can differ as strings.                      *)
(***************************************************************************)
EXTENDS Integers, Sequences, FiniteSets, TLC

VARIABLES
    stores,     \* the AbstractStore objects constructed so far
    lock,       \* lock[s]: the RLock _prompt_link_lock of store object s
    target,     \* tracking side: target[id] = [exists, tag, fresh]
    thr,        \* thr[t]: the link call thread t is executing
    last,       \* last[id]: the entries of the link call that last set target id's tag
    ncalls,     \* number of link calls started
    rm,         \* registry: rm[name] = [exists, tags]
    mvs,        \* registry: mvs[name][v] = [exists, tags, status, source]
    aliases,    \* registry: aliases[name][alias] = version number or 0
    nextv,      \* registry: nextv[name] = next version number to assign
    ret,        \* the last prompt-layer call: its arguments, store calls, result
    nops,       \* number of prompt-layer calls made that write the registry
    clock,      \* time()
    sstatus,    \* the store's status of the polled model version
    poll        \* the status poller's call frame

vars == <<stores, lock, target, thr, last, ncalls, rm, mvs, aliases, nextv,
          ret, nops, clock, sstatus, poll>>

linkVars == <<stores, lock, target, thr, last, ncalls>>
regVars == <<rm, mvs, aliases, nextv, ret, nops>>
pollVars == <<clock, sstatus, poll>>

----------------------------------------------------------------------------
(* Bounds *)

MaxCalls == 2       \* link calls started in one behaviour

----------------------------------------------------------------------------
(* Reserved tag keys and values (mlflow.prompt.constants) *)

IS_PROMPT_TAG_KEY == "mlflow.prompt.is_prompt"
PROMPT_TEXT_TAG_KEY == "mlflow.prompt.text"
PROMPT_TYPE_TAG_KEY == "_mlflow_prompt_type"
RESPONSE_FORMAT_TAG_KEY == "_mlflow_prompt_response_format"
LINKED_PROMPTS_TAG_KEY == "mlflow.linkedPrompts"
PROMPT_TYPE_TEXT == "text"
PROMPT_TYPE_CHAT == "chat"

----------------------------------------------------------------------------
(* Python int and str values of a version argument *)

Numeral == <<"1", "2", "3", "4", "5", "6">>

PyInt(i) == [t |-> "int", s |-> Numeral[i]]
PyStr(s) == [t |-> "str", s |-> s]
PyNone == [t |-> "none", s |-> "None"]

\* str(x): the text of x, as a str
Str(x) == [t |-> "str", s |-> x.s]

\* the integer a decimal text denotes, 0 when it denotes none
NumeralValue(s) ==
    IF \E i \in 1..Len(Numeral) : Numeral[i] = s
    THEN CHOOSE i \in 1..Len(Numeral) : Numeral[i] = s
    ELSE IF s = " 2 " THEN 2 ELSE 0

\* int(x): [ok, i]; ValueError for a non-numeric str, TypeError for None
IntOf(x) ==
    IF x.t = "none" THEN [ok |-> FALSE, i |-> 0]
    ELSE [ok |-> NumeralValue(x.s) # 0, i |-> NumeralValue(x.s)]

----------------------------------------------------------------------------
(* The linked-prompts tag: JSON text and its parsed value *)

\* one {"name": ..., "version": ...} object as written in a JSON text:
\* vint says the version is written as a JSON number, order is the key order
EntryOf(name, version) ==
    [name |-> name, version |-> version.s, vint |-> (version.t = "int"), order |-> "nv"]

\* Python dict equality: same keys with equal values, key order ignored
DictEq(a, b) == a.name = b.name /\ a.version = b.version /\ a.vint = b.vint

NoTag == [kind |-> "none", style |-> "default", items |-> <<>>]

\* json.dumps(list): the default separators, keys in insertion order
JsonDumps(items) == [kind |-> "array", style |-> "default", items |-> items]

\* json.loads(text): [ok, islist, items]; not ok is json.JSONDecodeError
JsonLoads(text) ==
    [ok |-> text.kind \in {"array", "nonarray"},
     islist |-> text.kind = "array",
     items |-> IF text.kind = "array" THEN text.items ELSE <<>>]

\* new_prompt_entry in parsed_prompts_tag_value
Contains(parsed, e) == \E i \in 1..Len(parsed) : DictEq(parsed[i], e)

RECURSIVE AppendNewAlways(_, _)
AppendNewAlways(parsed, entries) ==
    IF entries = <<>> THEN parsed
    ELSE AppendNewAlways(Append(parsed, Head(entries)), Tail(entries))

\* lines 1112-1114: append each new entry that is not already in the list
RECURSIVE AppendNew(_, _)
AppendNew(parsed, entries) ==
    IF entries = <<>> THEN parsed
    ELSE AppendNew(IF Contains(parsed, Head(entries)) THEN parsed
                   ELSE Append(parsed, Head(entries)),
                   Tail(entries))

UpdateLinkedPromptsTagNewOnly(current, entries) ==
    IF current.kind \notin {"none", "array"}
    THEN [err |-> "InvalidJSON", value |-> NoTag]
    ELSE [err |-> "none", value |-> JsonDumps(AppendNew(<<>>, entries))]

UpdateLinkedPromptsTagLenient(current, entries) ==
    [err |-> "none",
     value |-> JsonDumps(AppendNew(JsonLoads(current).items, entries))]

\* _update_linked_prompts_tag: [err, value]
UpdateLinkedPromptsTag(current, entries) ==
    IF current.kind # "none" /\ ~JsonLoads(current).ok
    THEN [err |-> "InvalidJSON", value |-> NoTag]
    ELSE IF current.kind # "none" /\ ~JsonLoads(current).islist
    THEN [err |-> "InvalidFormat", value |-> NoTag]
    ELSE [err |-> "none",
          value |-> JsonDumps(AppendNew(
                        IF current.kind = "none" THEN <<>> ELSE JsonLoads(current).items,
                        entries))]

----------------------------------------------------------------------------
(* The registry behind the abstract store methods *)

Names == {"p", "m"}
Aliases == {"prod", "3"}
MaxVersion == 3     \* version numbers a registered model can reach
TagKeys == {IS_PROMPT_TAG_KEY, PROMPT_TEXT_TAG_KEY, PROMPT_TYPE_TAG_KEY,
            RESPONSE_FORMAT_TAG_KEY, "k"}

\* a tag value is a Python str: its characters s, and for the text json.dumps
\* gives for a non-empty list the list itself in j
TV(s) == [s |-> s, j |-> <<>>]
Absent == [s |-> "<absent>", j |-> <<>>]
NoTags == [k \in TagKeys |-> Absent]

\* dict.get(key) == value
TagIs(tags, key, value) == tags[key] = TV(value)

\* a list of tags applied in order to a tag map: the key is unique, the last
\* value written for a key wins
RECURSIVE ApplyTags(_, _)
ApplyTags(tags, list) ==
    IF list = <<>> THEN tags
    ELSE ApplyTags([tags EXCEPT ![Head(list).key] = Head(list).value], Tail(list))

NoModel == [exists |-> FALSE, tags |-> NoTags]
NoVersion == [exists |-> FALSE, tags |-> NoTags, status |-> "NONE", source |-> ""]

\* RegisteredModel.tags: the user-visible tags, without the internal marker
\* (RegisteredModel._tags holds them all)
UserTags(tags) == [tags EXCEPT ![IS_PROMPT_TAG_KEY] = Absent]

\* mlflow.prompt.registry_utils.has_prompt_tag: the marker key is present
HasPromptTag(tags) == tags[IS_PROMPT_TAG_KEY] # Absent

\* get_registered_model: the entity, or a RESOURCE_DOES_NOT_EXIST MlflowException
GetRegisteredModel(reg, name) ==
    IF name \in Names /\ reg.rm[name].exists
    THEN [ok |-> TRUE, tags |-> reg.rm[name].tags]
    ELSE [ok |-> FALSE, tags |-> NoTags]

\* get_model_version: the version, or a RESOURCE_DOES_NOT_EXIST MlflowException
GetModelVersion(reg, name, v) ==
    IF name \in Names /\ v \in 1..MaxVersion /\ reg.mvs[name][v].exists
    THEN [ok |-> TRUE, version |-> v, mv |-> reg.mvs[name][v]]
    ELSE [ok |-> FALSE, version |-> 0, mv |-> NoVersion]

\* get_model_version_by_alias: the version the alias points to
GetModelVersionByAlias(reg, name, alias) ==
    IF name \in Names /\ alias \in Aliases /\ reg.aliases[name][alias] # 0
    THEN GetModelVersion(reg, name, reg.aliases[name][alias])
    ELSE [ok |-> FALSE, version |-> 0, mv |-> NoVersion]

----------------------------------------------------------------------------
(* Templates and the PromptVersion view *)

\* a template is a Python str (py = "str", characters s) or a list of
\* role/content records (py = "list", elements j)
TextTemplate(s) == [py |-> "str", s |-> s, j |-> <<>>]
ChatTemplate(j) == [py |-> "list", s |-> "", j |-> j]
NoTemplate == [py |-> "none", s |-> "", j |-> <<>>]
Hello == [role |-> "user", content |-> "Hello {{name}}"]

\* json.dumps(template) of a list: the text "[]" for the empty list
TemplateDumps(template) ==
    IF template.j = <<>> THEN TV("[]") ELSE [s |-> "<json>", j |-> template.j]

\* json.loads(text) of a tag value: [ok, value]; not ok is json.JSONDecodeError
TemplateLoads(text) ==
    IF text.s = "<json>" THEN [ok |-> TRUE, value |-> ChatTemplate(text.j)]
    ELSE IF text.s = "[]" THEN [ok |-> TRUE, value |-> ChatTemplate(<<>>)]
    ELSE IF text.s \in {"true", "false"}
    THEN [ok |-> TRUE, value |-> [py |-> "bool", s |-> text.s, j |-> <<>>]]
    ELSE [ok |-> FALSE, value |-> NoTemplate]

NoPV == [out |-> "none", err |-> "none", name |-> "", version |-> 0,
         template |-> NoTemplate, kind |-> "", tags |-> NoTags, calls |-> <<>>]

\* mlflow.prompt.registry_utils.model_version_to_prompt_version: the view of a
\* version carrying the template tags; a chat template is parsed back from JSON
ModelVersionToPromptVersion(name, v, mv, prompt_tags) ==
    IF ~HasPromptTag(mv.tags)
    THEN [NoPV EXCEPT !.out = "raise", !.err = "NotAPrompt"]
    ELSE IF mv.tags[PROMPT_TEXT_TAG_KEY] = Absent
    THEN [NoPV EXCEPT !.out = "raise", !.err = "MissingTemplate"]
    ELSE IF TagIs(mv.tags, PROMPT_TYPE_TAG_KEY, PROMPT_TYPE_CHAT)
    THEN IF TemplateLoads(mv.tags[PROMPT_TEXT_TAG_KEY]).ok
         THEN [NoPV EXCEPT !.out = "pv", !.name = name, !.version = v,
                           !.template = TemplateLoads(mv.tags[PROMPT_TEXT_TAG_KEY]).value,
                           !.kind = PROMPT_TYPE_CHAT, !.tags = prompt_tags]
         ELSE [NoPV EXCEPT !.out = "error", !.err = "JSONDecodeError"]
    ELSE [NoPV EXCEPT !.out = "pv", !.name = name, !.version = v,
                      !.template = TextTemplate(mv.tags[PROMPT_TEXT_TAG_KEY].s),
                      !.kind = PROMPT_TYPE_TEXT, !.tags = prompt_tags]

\* lines 794-800: the version is looked up by number when int(str(version))
\* succeeds, and by alias otherwise
LookupVersionAliasFirst(reg, name, version) ==
    IF GetModelVersionByAlias(reg, name, Str(version).s).ok
    THEN GetModelVersionByAlias(reg, name, Str(version).s)
    ELSE IF IntOf(Str(version)).ok
    THEN GetModelVersion(reg, name, IntOf(Str(version)).i)
    ELSE GetModelVersionByAlias(reg, name, version.s)

LookupVersion(reg, name, version) ==
    IF IntOf(Str(version)).ok
    THEN GetModelVersion(reg, name, IntOf(Str(version)).i)
    ELSE GetModelVersionByAlias(reg, name, version.s)

\* one call of an abstract store method: the method and its arguments
StoreCall(f, name, version, key, value) ==
    [f |-> f, name |-> name, version |-> version, key |-> key, value |-> value]

GetRmCall(name) == StoreCall("get_registered_model", name, 0, "", Absent)

LookupCall(name, version) ==
    IF IntOf(Str(version)).ok
    THEN StoreCall("get_model_version", name, IntOf(Str(version)).i, "", Absent)
    ELSE StoreCall("get_model_version_by_alias", name, 0, version.s, Absent)

GetPromptVersionMarkerPresent(reg, name, version) ==
    LET got == GetRegisteredModel(reg, name)
        mv == LookupVersion(reg, name, version)
    IN  IF ~got.ok
        THEN [NoPV EXCEPT !.out = "raise", !.err = "DoesNotExist",
                          !.calls = <<GetRmCall(name)>>]
        ELSE IF ~HasPromptTag(got.tags)
        THEN [NoPV EXCEPT !.out = "raise", !.err = "NotAPrompt",
                          !.calls = <<GetRmCall(name)>>]
        ELSE IF ~mv.ok
        THEN [NoPV EXCEPT !.out = "raise", !.err = "DoesNotExist",
                          !.calls = <<GetRmCall(name), LookupCall(name, version)>>]
        ELSE IF ~HasPromptTag(mv.mv.tags)
        THEN [NoPV EXCEPT !.calls = <<GetRmCall(name), LookupCall(name, version)>>]
        ELSE LET pv == ModelVersionToPromptVersion(name, mv.version, mv.mv,
                                                   UserTags(got.tags))
             IN  IF pv.out = "error"
                 THEN [NoPV EXCEPT !.calls = <<GetRmCall(name), LookupCall(name, version)>>]
                 ELSE [pv EXCEPT !.calls = <<GetRmCall(name), LookupCall(name, version)>>]

\* get_prompt_version (lines 761-816): [out, err, ...]; out is "pv" (a
\* PromptVersion), "none" (None) or "raise" (an MlflowException, re-raised)
GetPromptVersion(reg, name, version) ==
    LET got == GetRegisteredModel(reg, name)
        mv == LookupVersion(reg, name, version)
    IN  IF ~got.ok
        THEN [NoPV EXCEPT !.out = "raise", !.err = "DoesNotExist",
                          !.calls = <<GetRmCall(name)>>]
        ELSE IF ~TagIs(got.tags, IS_PROMPT_TAG_KEY, "true")
        THEN [NoPV EXCEPT !.out = "raise", !.err = "NotAPrompt",
                          !.calls = <<GetRmCall(name)>>]
        ELSE IF ~mv.ok
        THEN [NoPV EXCEPT !.out = "raise", !.err = "DoesNotExist",
                          !.calls = <<GetRmCall(name), LookupCall(name, version)>>]
        ELSE IF ~HasPromptTag(mv.mv.tags)
        THEN [NoPV EXCEPT !.calls = <<GetRmCall(name), LookupCall(name, version)>>]
        ELSE LET pv == ModelVersionToPromptVersion(name, mv.version, mv.mv,
                                                   UserTags(got.tags))
             IN  IF pv.out = "error"
                 THEN [NoPV EXCEPT !.calls = <<GetRmCall(name), LookupCall(name, version)>>]
                 ELSE [pv EXCEPT !.calls = <<GetRmCall(name), LookupCall(name, version)>>]

----------------------------------------------------------------------------
(* The abstract store methods on a registry reg = [rm, mvs, aliases, nextv];  *)
(* each gives [ok, err, reg, version]: not ok is an MlflowException.         *)

Registry == [rm |-> rm, mvs |-> mvs, aliases |-> aliases, nextv |-> nextv]

StoreOk(reg, v) == [ok |-> TRUE, err |-> "none", reg |-> reg, version |-> v]
StoreErr(reg, err) == [ok |-> FALSE, err |-> err, reg |-> reg, version |-> 0]

CreateRegisteredModel(reg, name, tags) ==
    IF reg.rm[name].exists THEN StoreErr(reg, "AlreadyExists")
    ELSE StoreOk([reg EXCEPT !.rm[name] = [exists |-> TRUE,
                                          tags |-> ApplyTags(NoTags, tags)]], 0)

\* deleting an entity deletes its versions and aliases
DeleteRegisteredModel(reg, name) ==
    IF ~reg.rm[name].exists THEN StoreErr(reg, "DoesNotExist")
    ELSE StoreOk([reg EXCEPT !.rm[name] = NoModel,
                             !.mvs[name] = [v \in 1..MaxVersion |-> NoVersion],
                             !.aliases[name] = [a \in Aliases |-> 0],
                             !.nextv[name] = 1], 0)

SetRegisteredModelTag(reg, name, key, value) ==
    IF ~reg.rm[name].exists THEN StoreErr(reg, "DoesNotExist")
    ELSE StoreOk([reg EXCEPT !.rm[name].tags[key] = value], 0)

DeleteRegisteredModelTag(reg, name, key) ==
    IF ~reg.rm[name].exists THEN StoreErr(reg, "DoesNotExist")
    ELSE StoreOk([reg EXCEPT !.rm[name].tags[key] = Absent], 0)

\* the next version number of the entity is assigned; the version starts in
\* PENDING_REGISTRATION
CreateModelVersion(reg, name, source, tags) ==
    IF ~reg.rm[name].exists THEN StoreErr(reg, "DoesNotExist")
    ELSE StoreOk([reg EXCEPT !.mvs[name][reg.nextv[name]] =
                                 [exists |-> TRUE, tags |-> ApplyTags(NoTags, tags),
                                  status |-> "PENDING_REGISTRATION", source |-> source],
                             !.nextv[name] = @ + 1],
                 reg.nextv[name])

\* aliases do not survive the deletion of their version
DeleteModelVersion(reg, name, v) ==
    IF ~GetModelVersion(reg, name, v).ok THEN StoreErr(reg, "DoesNotExist")
    ELSE StoreOk([reg EXCEPT !.mvs[name][v] = NoVersion,
                             !.aliases[name] = [a \in Aliases |-> IF @[a] = v THEN 0 ELSE @[a]]],
                 v)

SetModelVersionTag(reg, name, v, key, value) ==
    IF ~GetModelVersion(reg, name, v).ok THEN StoreErr(reg, "DoesNotExist")
    ELSE StoreOk([reg EXCEPT !.mvs[name][v].tags[key] = value], v)

DeleteModelVersionTag(reg, name, v, key) ==
    IF ~GetModelVersion(reg, name, v).ok THEN StoreErr(reg, "DoesNotExist")
    ELSE StoreOk([reg EXCEPT !.mvs[name][v].tags[key] = Absent], v)

----------------------------------------------------------------------------
(* Prompt adaptation layer: each method gives [reg, out, err, calls, tags,   *)
(* pv]: the registry after it, its outcome (out = "raise" with the error     *)
(* err), the store calls it made, and the Prompt tags or PromptVersion it    *)
(* returns.                                                                  *)

Result(reg, out, err, calls, tags, pv) ==
    [reg |-> reg, out |-> out, err |-> err, calls |-> calls, tags |-> tags, pv |-> pv]

Tag(key, value) == [key |-> key, value |-> value]

\* create_prompt (lines 507-541)
CreatePrompt(reg, name, tags) ==
    LET prompt_tags == <<Tag(IS_PROMPT_TAG_KEY, TV("true"))>> \o tags
        r == CreateRegisteredModel(reg, name, prompt_tags)
        calls == <<StoreCall("create_registered_model", name, 0, "", Absent)>>
    IN  IF ~r.ok THEN Result(reg, "raise", r.err, calls, NoTags, NoPV)
        ELSE Result(r.reg, "prompt", "none", calls, ApplyTags(NoTags, tags), NoPV)

GetPromptKeyPresent(reg, name) ==
    LET got == GetRegisteredModel(reg, name)
    IN  IF ~got.ok \/ ~HasPromptTag(got.tags)
        THEN Result(reg, "none", "none", <<GetRmCall(name)>>, NoTags, NoPV)
        ELSE Result(reg, "prompt", "none", <<GetRmCall(name)>>, UserTags(got.tags), NoPV)

\* get_prompt (lines 647-686): None when the entity is missing (the store's
\* exception is swallowed) or its marker is not "true"
GetPrompt(reg, name) ==
    LET got == GetRegisteredModel(reg, name)
    IN  IF ~got.ok \/ ~TagIs(got.tags, IS_PROMPT_TAG_KEY, "true")
        THEN Result(reg, "none", "none", <<GetRmCall(name)>>, NoTags, NoPV)
        ELSE Result(reg, "prompt", "none", <<GetRmCall(name)>>, UserTags(got.tags), NoPV)

GetPromptReraising(reg, name, fault) ==
    IF fault = "error"
    THEN Result(reg, "raise", "InternalError", <<GetRmCall(name)>>, NoTags, NoPV)
    ELSE GetPrompt(reg, name)

\* get_prompt on a store whose get_registered_model may fail for a reason of
\* its own (fault): `except Exception: return None` (lines 685-686)
GetPromptOfStore(reg, name, fault) ==
    IF fault = "error"
    THEN Result(reg, "none", "none", <<GetRmCall(name)>>, NoTags, NoPV)
    ELSE GetPrompt(reg, name)

\* lines 720-742: the marker, the template tags, then the caller's tags
VersionTags(template, tags) ==
    <<Tag(IS_PROMPT_TAG_KEY, TV("true"))>>
    \o (IF template.py = "str"
        THEN <<Tag(PROMPT_TEXT_TAG_KEY, TV(template.s)),
               Tag(PROMPT_TYPE_TAG_KEY, TV(PROMPT_TYPE_TEXT))>>
        ELSE <<Tag(PROMPT_TEXT_TAG_KEY, TemplateDumps(template)),
               Tag(PROMPT_TYPE_TAG_KEY, TV(PROMPT_TYPE_CHAT))>>)
    \o tags

CreatePromptVersionChatVerbatim(reg, name, template, tags) ==
    LET list == <<Tag(IS_PROMPT_TAG_KEY, TV("true")),
                  Tag(PROMPT_TEXT_TAG_KEY, TemplateDumps(template)),
                  Tag(PROMPT_TYPE_TAG_KEY, TV(PROMPT_TYPE_TEXT))>> \o tags
        r == CreateModelVersion(reg, name, "prompt-template", list)
        calls == <<StoreCall("create_model_version", name, 0, "", Absent), GetRmCall(name)>>
    IN  IF ~r.ok
        THEN Result(reg, "raise", r.err, <<calls[1]>>, NoTags, NoPV)
        ELSE LET pv == ModelVersionToPromptVersion(name, r.version,
                           r.reg.mvs[name][r.version],
                           UserTags(GetRegisteredModel(r.reg, name).tags))
             IN  Result(r.reg, IF pv.out = "pv" THEN "pv" ELSE "raise", pv.err,
                        calls, NoTags, pv)

\* create_prompt_version (lines 688-759)
CreatePromptVersion(reg, name, template, tags) ==
    LET r == CreateModelVersion(reg, name, "prompt-template", VersionTags(template, tags))
        calls == <<StoreCall("create_model_version", name, 0, "", Absent), GetRmCall(name)>>
    IN  IF ~r.ok
        THEN Result(reg, "raise", r.err, <<calls[1]>>, NoTags, NoPV)
        ELSE LET pv == ModelVersionToPromptVersion(name, r.version,
                           r.reg.mvs[name][r.version],
                           UserTags(GetRegisteredModel(r.reg, name).tags))
             IN  Result(r.reg, IF pv.out = "pv" THEN "pv" ELSE "raise", pv.err,
                        calls, NoTags, pv)

DeletePromptVersionAliasToo(reg, name, version) ==
    LET mv == LookupVersion(reg, name, version)
        r == DeleteModelVersion(reg, name, mv.version)
        calls == <<StoreCall("delete_model_version", name, mv.version, "", Absent)>>
    IN  Result(r.reg, IF r.ok THEN "ok" ELSE "raise", r.err, calls, NoTags, NoPV)

\* delete_prompt_version (lines 818-834)
DeletePromptVersion(reg, name, version) ==
    IF ~IntOf(version).ok
    THEN Result(reg, "raise", "InvalidVersionNumber", <<>>, NoTags, NoPV)
    ELSE LET r == DeleteModelVersion(reg, name, IntOf(version).i)
             calls == <<StoreCall("delete_model_version", name, IntOf(version).i, "", Absent)>>
         IN  Result(r.reg, IF r.ok THEN "ok" ELSE "raise", r.err, calls, NoTags, NoPV)

\* set_prompt_version_tag (lines 943-966)
SetPromptVersionTag(reg, name, version, key, value) ==
    IF ~IntOf(version).ok
    THEN Result(reg, "raise", "InvalidVersionNumber", <<>>, NoTags, NoPV)
    ELSE LET r == SetModelVersionTag(reg, name, IntOf(version).i, key, value)
             calls == <<StoreCall("set_model_version_tag", name, IntOf(version).i, key, value)>>
         IN  Result(r.reg, IF r.ok THEN "ok" ELSE "raise", r.err, calls, NoTags, NoPV)

\* delete_prompt_version_tag (lines 968-987)
DeletePromptVersionTag(reg, name, version, key) ==
    IF ~IntOf(version).ok
    THEN Result(reg, "raise", "InvalidVersionNumber", <<>>, NoTags, NoPV)
    ELSE LET r == DeleteModelVersionTag(reg, name, IntOf(version).i, key)
             calls == <<StoreCall("delete_model_version_tag", name, IntOf(version).i, key,
                                  Absent)>>
         IN  Result(r.reg, IF r.ok THEN "ok" ELSE "raise", r.err, calls, NoTags, NoPV)

\* set_prompt_tag (lines 617-631)
SetPromptTag(reg, name, key, value) ==
    LET r == SetRegisteredModelTag(reg, name, key, value)
    IN  Result(r.reg, IF r.ok THEN "ok" ELSE "raise", r.err,
               <<StoreCall("set_registered_model_tag", name, 0, key, value)>>, NoTags, NoPV)

\* delete_prompt_tag (lines 633-645)
DeletePromptTag(reg, name, key) ==
    LET r == DeleteRegisteredModelTag(reg, name, key)
    IN  Result(r.reg, IF r.ok THEN "ok" ELSE "raise", r.err,
               <<StoreCall("delete_registered_model_tag", name, 0, key, Absent)>>,
               NoTags, NoPV)

DeletePromptOfPrompts(reg, name) ==
    LET got == GetRegisteredModel(reg, name)
        r == DeleteRegisteredModel(reg, name)
    IN  IF got.ok /\ ~TagIs(got.tags, IS_PROMPT_TAG_KEY, "true")
        THEN Result(reg, "raise", "NotAPrompt", <<GetRmCall(name)>>, NoTags, NoPV)
        ELSE Result(r.reg, IF r.ok THEN "ok" ELSE "raise", r.err,
                    <<GetRmCall(name),
                      StoreCall("delete_registered_model", name, 0, "", Absent)>>,
                    NoTags, NoPV)

\* delete_prompt (lines 604-615)
DeletePrompt(reg, name) ==
    LET r == DeleteRegisteredModel(reg, name)
    IN  Result(r.reg, IF r.ok THEN "ok" ELSE "raise", r.err,
               <<StoreCall("delete_registered_model", name, 0, "", Absent)>>, NoTags, NoPV)

SearchPromptVersionsOfPrompts(reg, name, max_results, page_token) ==
    IF GetRegisteredModel(reg, name).ok
    THEN Result(reg, "page", "none",
                <<StoreCall("search_model_versions", name, 0, "", Absent)>>, NoTags, NoPV)
    ELSE Result(reg, "raise", "NotSupported", <<>>, NoTags, NoPV)

\* search_prompt_versions (lines 876-897): raises whatever it is given
SearchPromptVersions(reg, name, max_results, page_token) ==
    Result(reg, "raise", "NotSupported", <<>>, NoTags, NoPV)

\* get_prompt_version as a call of the layer
GetPromptVersionCall(reg, name, version) ==
    LET pv == GetPromptVersion(reg, name, version)
    IN  Result(reg, pv.out, pv.err, pv.calls, NoTags, pv)

\* the store's search_registered_models: the entities that match the filter,
\* by name (ascending unless order_by says otherwise), the page that starts
\* where the token says, of at most max_results entities, and the token of
\* the page after it
MarkerCondition == "tags.`mlflow.prompt.is_prompt` = 'true'"
SearchRegisteredModels(reg, filter, max_results, order_by, page_token) ==
    LET matches(n) ==
            /\ reg.rm[n].exists
            /\ \A i \in 1..Len(filter) :
                  /\ filter[i] = MarkerCondition
                     => reg.rm[n].tags[IS_PROMPT_TAG_KEY] = TV("true")
                  /\ filter[i] = "name = 'p'" => n = "p"
        all == SelectSeq(IF order_by = PyNone THEN <<"m", "p">> ELSE <<"p", "m">>,
                         matches)
        from == IF page_token = PyNone THEN 0 ELSE 1
        to == IF from + max_results < Len(all) THEN from + max_results ELSE Len(all)
    IN  [items |-> [i \in 1..(IF to > from THEN to - from ELSE 0) |->
                       [name |-> all[from + i], tags |-> reg.rm[all[from + i]].tags]],
         token |-> IF to < Len(all) THEN PyStr("token") ELSE PyNone]

SearchPromptsCallerFilterOnly(reg, filter_string, max_results, order_by, page_token) ==
    LET prompt_filter == IF filter_string \in {PyNone, PyStr("")}
                         THEN <<MarkerCondition>> ELSE <<filter_string.s>>
        n == IF max_results = PyNone THEN 100 ELSE IntOf(max_results).i
        found == SearchRegisteredModels(reg, prompt_filter, n, order_by, page_token)
    IN  [reg |-> reg, out |-> "page", err |-> "none",
         calls |-> <<[f |-> "search_registered_models", filter |-> prompt_filter,
                      max_results |-> n, order_by |-> order_by,
                      page_token |-> page_token]>>,
         tags |-> NoTags, pv |-> NoPV,
         page |-> [items |-> [i \in 1..Len(found.items) |->
                                 [name |-> found.items[i].name,
                                  tags |-> UserTags(found.items[i].tags)]],
                   token |-> found.token]]

\* search_prompts (lines 543-602)
SearchPrompts(reg, filter_string, max_results, order_by, page_token) ==
    LET prompt_filter == IF filter_string \in {PyNone, PyStr("")}
                         THEN <<MarkerCondition>>
                         ELSE <<MarkerCondition, "AND", filter_string.s>>
        n == IF max_results = PyNone THEN 100 ELSE IntOf(max_results).i
        found == SearchRegisteredModels(reg, prompt_filter, n, order_by, page_token)
    IN  [reg |-> reg, out |-> "page", err |-> "none",
         calls |-> <<[f |-> "search_registered_models", filter |-> prompt_filter,
                      max_results |-> n, order_by |-> order_by,
                      page_token |-> page_token]>>,
         tags |-> NoTags, pv |-> NoPV,
         page |-> [items |-> [i \in 1..Len(found.items) |->
                                 [name |-> found.items[i].name,
                                  tags |-> UserTags(found.items[i].tags)]],
                   token |-> found.token]]

\* src_mv.tags.items(): the tags of a version as a list
RECURSIVE TagItems(_, _)
TagItems(tags, keys) ==
    IF keys = {} THEN <<>>
    ELSE LET k == CHOOSE x \in keys : TRUE
         IN  (IF tags[k] # Absent THEN <<Tag(k, tags[k])>> ELSE <<>>)
             \o TagItems(tags, keys \ {k})

\* the create_model_version call of copy_model_version (lines 448-455)
CopyCall(src_mv, dst_name) ==
    [f |-> "create_model_version", name |-> dst_name,
     source |-> "models:/" \o src_mv.name \o "/" \o Numeral[src_mv.version],
     run_id |-> src_mv.run_id, tags |-> TagItems(src_mv.tags, TagKeys),
     run_link |-> src_mv.run_link, description |-> src_mv.description]

CopyModelVersionIntoNewOnly(reg, src_mv, dst_name, fault) ==
    LET made == CreateRegisteredModel(reg, dst_name, <<>>)
        c == CopyCall(src_mv, dst_name)
        r == CreateModelVersion(made.reg, dst_name, c.source, c.tags)
        calls == <<StoreCall("create_registered_model", dst_name, 0, "", Absent), c>>
    IN  IF fault = "entity"
        THEN Result(reg, "raise", "PermissionDenied", <<calls[1]>>, NoTags, NoPV)
        ELSE IF ~made.ok
        THEN Result(reg, "raise", made.err, <<calls[1]>>, NoTags, NoPV)
        ELSE IF fault = "version" \/ ~r.ok
        THEN Result(made.reg, "raise", "CopyFailed", calls, NoTags, NoPV)
        ELSE Result(r.reg, "mv", "none", calls, NoTags, [NoPV EXCEPT !.version = r.version])

\* copy_model_version (lines 423-467); fault is the store call that fails
\* for a reason of the store's own: none, the creation of the entity, the
\* creation of the version
CopyModelVersion(reg, src_mv, dst_name, fault) ==
    LET made == CreateRegisteredModel(reg, dst_name, <<>>)
        c == CopyCall(src_mv, dst_name)
        r == CreateModelVersion(made.reg, dst_name, c.source, c.tags)
        calls == <<StoreCall("create_registered_model", dst_name, 0, "", Absent), c>>
    IN  IF fault = "entity"
        THEN Result(reg, "raise", "PermissionDenied", <<calls[1]>>, NoTags, NoPV)
        ELSE IF ~made.ok /\ made.err # "AlreadyExists"
        THEN Result(reg, "raise", made.err, <<calls[1]>>, NoTags, NoPV)
        ELSE IF fault = "version" \/ ~r.ok
        THEN Result(made.reg, "raise", "CopyFailed", calls, NoTags, NoPV)
        ELSE Result(r.reg, "mv", "none", calls, NoTags, [NoPV EXCEPT !.version = r.version])

\* get_prompt_version_by_alias (lines 836-849)
GetPromptVersionByAlias(reg, name, alias) == GetPromptVersionCall(reg, name, PyStr(alias))

----------------------------------------------------------------------------
(* Calls of the prompt adaptation layer on the registry.  ret records the    *)
(* last call: its arguments, its result, whether it changed the registry,    *)
(* and (created) the create_prompt_version call right before it.             *)

MaxOps == 1         \* registry-writing prompt-layer calls in one behaviour

CallNames == Names \cup {"ghost"}
VersionInputs == {PyInt(1), PyInt(3), PyStr("3"), PyStr(" 2 "), PyStr("abc"),
                  PyStr("prod"), PyNone}
Templates == {TextTemplate("Hello {{name}}"), TextTemplate("[]"),
              ChatTemplate(<<Hello>>), ChatTemplate(<<>>)}
\* tags= of create_prompt: none, a user tag, the reserved marker key
PromptTagLists == {<<>>, <<Tag("k", TV("v"))>>, <<Tag(IS_PROMPT_TAG_KEY, TV("false"))>>}
\* tags= of create_prompt_version: none, a user tag, reserved keys
VersionTagLists == {<<>>, <<Tag("k", TV("v"))>>,
                    <<Tag(PROMPT_TEXT_TAG_KEY, TV("other"))>>,
                    <<Tag(PROMPT_TYPE_TAG_KEY, TV(PROMPT_TYPE_CHAT))>>}
TagPairs == {Tag("k", TV("v2")), Tag(IS_PROMPT_TAG_KEY, TV("false"))}

NoCreated == [set |-> FALSE, name |-> "", version |-> 0, template |-> NoTemplate,
              ctags |-> <<>>]
NoSrc == [name |-> "", version |-> 0, tags |-> NoTags, run_id |-> PyNone,
          run_link |-> PyNone, description |-> PyNone]
RetNone ==
    [op |-> "none", name |-> "", version |-> PyNone, key |-> "", value |-> Absent,
     template |-> NoTemplate, ctags |-> <<>>, max_results |-> PyNone, page_token |-> PyNone,
     filter_string |-> PyNone, order_by |-> PyNone,
     page |-> [items |-> <<>>, token |-> PyNone], src_mv |-> NoSrc, fault |-> "none",
     out |-> "none", err |-> "none", calls |-> <<>>, tags |-> NoTags, pv |-> NoPV, changed |-> FALSE,
     created |-> NoCreated, createdPrompt |-> [set |-> FALSE, tags |-> NoTags]]

\* the create_prompt_version call that ret records, when it returned a version
Created ==
    IF ret.op = "create_prompt_version" /\ ret.out = "pv"
    THEN [set |-> TRUE, name |-> ret.name, version |-> ret.pv.version,
          template |-> ret.template, ctags |-> ret.ctags]
    ELSE NoCreated

\* the create_prompt call that ret records, when it returned a Prompt of the
\* given name: the tags of that Prompt
CreatedPrompt(name) ==
    IF ret.op = "create_prompt" /\ ret.out = "prompt" /\ ret.name = name
    THEN [set |-> TRUE, tags |-> ret.tags]
    ELSE [set |-> FALSE, tags |-> NoTags]

\* one call: the registry becomes res.reg and ret records the call
Do(args, res, write) ==
    /\ write => nops < MaxOps
    /\ rm' = res.reg.rm
    /\ mvs' = res.reg.mvs
    /\ aliases' = res.reg.aliases
    /\ nextv' = res.reg.nextv
    /\ nops' = IF write THEN nops + 1 ELSE nops
    /\ ret' = [op |-> args.op, name |-> args.name, version |-> args.version,
               key |-> args.key, value |-> args.value, template |-> args.template,
               ctags |-> args.ctags, max_results |-> args.max_results,
               page_token |-> args.page_token, filter_string |-> args.filter_string,
               order_by |-> args.order_by, src_mv |-> args.src_mv, fault |-> args.fault,
               page |-> IF "page" \in DOMAIN res THEN res.page ELSE RetNone.page,
               out |-> res.out, err |-> res.err,
               calls |-> res.calls, tags |-> res.tags, pv |-> res.pv,
               changed |-> res.reg # Registry,
               created |-> IF args.op = "get_prompt_version" THEN Created ELSE NoCreated,
               createdPrompt |-> IF args.op = "get_prompt" THEN CreatedPrompt(args.name)
                                 ELSE RetNone.createdPrompt]
    /\ UNCHANGED <<linkVars, pollVars>>

Args(op, name) ==
    [op |-> op, name |-> name, version |-> PyNone, key |-> "", value |-> Absent,
     template |-> NoTemplate, ctags |-> <<>>, max_results |-> PyNone,
     page_token |-> PyNone, filter_string |-> PyNone, order_by |-> PyNone,
     src_mv |-> NoSrc, fault |-> "none"]

CallCreatePrompt(name, tags) ==
    Do([Args("create_prompt", name) EXCEPT !.ctags = tags],
       CreatePrompt(Registry, name, tags), TRUE)

CallGetPrompt(name) ==
    Do(Args("get_prompt", name), GetPrompt(Registry, name), FALSE)

CallGetPromptOfStore(name, fault) ==
    Do([Args("get_prompt", name) EXCEPT !.fault = fault],
       GetPromptOfStore(Registry, name, fault), FALSE)

CallSetPromptTag(name, tag) ==
    Do([Args("set_prompt_tag", name) EXCEPT !.key = tag.key, !.value = tag.value],
       SetPromptTag(Registry, name, tag.key, tag.value), TRUE)

CallDeletePromptTag(name, key) ==
    Do([Args("delete_prompt_tag", name) EXCEPT !.key = key],
       DeletePromptTag(Registry, name, key), TRUE)

CallDeletePrompt(name) ==
    Do(Args("delete_prompt", name), DeletePrompt(Registry, name), TRUE)

\* the store assigns version numbers up to MaxVersion
CallCreatePromptVersion(name, template, tags) ==
    /\ nextv[name] <= MaxVersion
    /\ Do([Args("create_prompt_version", name) EXCEPT !.template = template,
                                                     !.ctags = tags],
          CreatePromptVersion(Registry, name, template, tags), TRUE)

CallGetPromptVersion(name, version) ==
    Do([Args("get_prompt_version", name) EXCEPT !.version = version],
       GetPromptVersionCall(Registry, name, version), FALSE)

CallGetPromptVersionByAlias(name, alias) ==
    Do([Args("get_prompt_version_by_alias", name) EXCEPT !.version = PyStr(alias)],
       GetPromptVersionByAlias(Registry, name, alias), FALSE)

CallDeletePromptVersion(name, version) ==
    Do([Args("delete_prompt_version", name) EXCEPT !.version = version],
       DeletePromptVersion(Registry, name, version), TRUE)

CallSetPromptVersionTag(name, version, tag) ==
    Do([Args("set_prompt_version_tag", name) EXCEPT !.version = version,
                                                  !.key = tag.key, !.value = tag.value],
       SetPromptVersionTag(Registry, name, version, tag.key, tag.value), TRUE)

CallDeletePromptVersionTag(name, version, key) ==
    Do([Args("delete_prompt_version_tag", name) EXCEPT !.version = version, !.key = key],
       DeletePromptVersionTag(Registry, name, version, key), TRUE)

CallSearchPromptVersions(name, max_results, page_token) ==
    Do([Args("search_prompt_versions", name) EXCEPT !.max_results = max_results,
                                                     !.page_token = page_token],
       SearchPromptVersions(Registry, name, max_results, page_token), FALSE)

CallSearchPrompts(filter_string, max_results, order_by, page_token) ==
    Do([Args("search_prompts", "") EXCEPT !.filter_string = filter_string,
                                          !.max_results = max_results,
                                          !.order_by = order_by,
                                          !.page_token = page_token],
       SearchPrompts(Registry, filter_string, max_results, order_by, page_token), FALSE)

\* src_mv is a version the caller got from the registry
CallCopyModelVersion(src_name, src_version, run_id, dst_name, fault) ==
    /\ mvs[src_name][src_version].exists
    /\ nextv[dst_name] <= MaxVersion
    /\ LET src_mv == [name |-> src_name, version |-> src_version,
                      tags |-> mvs[src_name][src_version].tags, run_id |-> run_id,
                      run_link |-> PyNone, description |-> PyStr("first")]
       IN  Do([Args("copy_model_version", dst_name) EXCEPT !.src_mv = src_mv,
                                                          !.fault = fault],
              CopyModelVersion(Registry, src_mv, dst_name, fault), TRUE)

\* the registry of the link and poller specifications, which make no
\* prompt-layer call
RegistryUnused ==
    /\ rm = [n \in Names |-> NoModel]
    /\ mvs = [n \in Names |-> [v \in 1..MaxVersion |-> NoVersion]]
    /\ aliases = [n \in Names |-> [a \in Aliases |-> 0]]
    /\ nextv = [n \in Names |-> 1]
    /\ ret = RetNone
    /\ nops = 0

----------------------------------------------------------------------------
(* Status poller: _await_model_version_creation_impl (lines 480-503) *)

AWAIT_MODEL_VERSION_CREATE_SLEEP_INTERVAL_SECONDS == 3
MaxClock == 12      \* the clock stops advancing here
MaxTimeout == 7     \* largest await_creation_for

PENDING_REGISTRATION == "PENDING_REGISTRATION"
READY == "READY"
FAILED_REGISTRATION == "FAILED_REGISTRATION"

\* the store's status and status message of the version
StoreStatuses == {[status |-> PENDING_REGISTRATION, message |-> ""],
                  [status |-> READY, message |-> ""],
                  [status |-> FAILED_REGISTRATION, message |-> "registration failed"]}

NoOutcome == [kind |-> "none", status |-> "", message |-> ""]
PollIdle == [pc |-> "idle", mv |-> [status |-> READY, message |-> ""], first |-> READY,
             max_time |-> 0, fetches |-> 0, sleeps |-> 0, refetched |-> FALSE,
             tclock |-> 0, out |-> NoOutcome, checks |-> 0,
             late |-> [seen |-> FALSE, clock |-> 0, fetches |-> 0], tstore |-> ""]

\* line 489: the deadline has passed
DeadlineNeverPassed(now, max_time) == FALSE
DeadlinePassedAtEqual(now, max_time) == now >= max_time
DeadlinePassed(now, max_time) == now > max_time

\* lines 499-503: the call's outcome for the status observed last
FinalOutcomeAnyTerminal(mv) == [kind |-> "ok", status |-> mv.status, message |-> ""]
FinalOutcome(mv) ==
    IF mv.status # READY
    THEN [kind |-> "CreationFailed", status |-> mv.status, message |-> mv.message]
    ELSE [kind |-> "ok", status |-> mv.status, message |-> ""]

\* the call: max_time = time() + await_creation_for (line 486); mv is the
\* version as the store has it when the call is made
StartPoll(timeout) ==
    /\ poll.pc = "idle"
    /\ poll' = [PollIdle EXCEPT !.pc = "while", !.mv = sstatus, !.first = sstatus.status,
                                !.max_time = clock + timeout]
    /\ UNCHANGED <<clock, sstatus, linkVars, regVars>>

LoopHeadDoWhile ==
    /\ poll.pc = "while"
    /\ poll' = [poll EXCEPT !.pc = IF poll.mv.status = PENDING_REGISTRATION \/ poll.fetches = 0
                                   THEN "check" ELSE "final"]
    /\ UNCHANGED <<clock, sstatus, linkVars, regVars>>

\* line 488: while mv.status == pending_status
LoopHead ==
    /\ poll.pc = "while"
    /\ poll' = [poll EXCEPT !.pc = IF poll.mv.status = PENDING_REGISTRATION
                                   THEN "check" ELSE "final"]
    /\ UNCHANGED <<clock, sstatus, linkVars, regVars>>

\* the first deadline check of the call that found the clock at or past
\* max_time: the clock it found and the fetches made until then
FirstLate(late, now, p) ==
    IF late.seen \/ now < p.max_time THEN late
    ELSE [seen |-> TRUE, clock |-> now, fetches |-> p.fetches]

\* lines 489-494: if time() > max_time: raise
CheckDeadline ==
    /\ poll.pc = "check"
    /\ LET p == [poll EXCEPT !.checks = @ + 1, !.late = FirstLate(poll.late, clock, poll)]
       IN  poll' = IF DeadlinePassed(clock, poll.max_time)
                   THEN [p EXCEPT !.pc = "done", !.tclock = clock,
                                  !.tstore = sstatus.status,
                                  !.out = [kind |-> "Timeout", status |-> poll.mv.status,
                                           message |-> ""]]
                   ELSE [p EXCEPT !.pc = "fetch"]
    /\ UNCHANGED <<clock, sstatus, linkVars, regVars>>

FetchAndMarkReady ==
    /\ poll.pc = "fetch"
    /\ poll' = [poll EXCEPT !.mv = sstatus, !.fetches = @ + 1,
                            !.refetched = @ \/ poll.mv.status # PENDING_REGISTRATION,
                            !.pc = IF sstatus.status # PENDING_REGISTRATION
                                   THEN "final" ELSE "sleep"]
    /\ sstatus' = IF poll.fetches >= 1 THEN [status |-> READY, message |-> ""] ELSE sstatus
    /\ UNCHANGED <<clock, linkVars, regVars>>

\* lines 495-497: mv = self.get_model_version(...); break when not pending
Fetch ==
    /\ poll.pc = "fetch"
    /\ poll' = [poll EXCEPT !.mv = sstatus, !.fetches = @ + 1,
                            !.refetched = @ \/ poll.mv.status # PENDING_REGISTRATION,
                            !.pc = IF sstatus.status # PENDING_REGISTRATION
                                   THEN "final" ELSE "sleep"]
    /\ UNCHANGED <<clock, sstatus, linkVars, regVars>>

\* line 498: sleep(AWAIT_MODEL_VERSION_CREATE_SLEEP_INTERVAL_SECONDS)
Sleep ==
    /\ poll.pc = "sleep"
    /\ clock + AWAIT_MODEL_VERSION_CREATE_SLEEP_INTERVAL_SECONDS <= MaxClock
    /\ clock' = clock + AWAIT_MODEL_VERSION_CREATE_SLEEP_INTERVAL_SECONDS
    /\ poll' = [poll EXCEPT !.pc = "while", !.sleeps = @ + 1]
    /\ UNCHANGED <<sstatus, linkVars, regVars>>

\* lines 499-503: the status check after the loop
Final ==
    /\ poll.pc = "final"
    /\ poll' = [poll EXCEPT !.pc = "done", !.out = FinalOutcome(poll.mv)]
    /\ UNCHANGED <<clock, sstatus, linkVars, regVars>>

\* time passes
Tick ==
    /\ clock < MaxClock
    /\ clock' = clock + 1
    /\ UNCHANGED <<sstatus, poll, linkVars, regVars>>

\* the store (its backing process) moves the version out of PENDING_REGISTRATION
StoreTransition(st) ==
    /\ sstatus.status = PENDING_REGISTRATION
    /\ st.status # PENDING_REGISTRATION
    /\ sstatus' = st
    /\ UNCHANGED <<clock, poll, linkVars, regVars>>

PollerUnused ==
    /\ clock = 0
    /\ sstatus = [status |-> READY, message |-> ""]
    /\ poll = PollIdle

----------------------------------------------------------------------------
(* Link merge protocol: link_prompts_to_trace, link_prompt_version_to_model, *)
(* link_prompt_version_to_run                                               *)

Threads == {"t1", "t2"}
StoreIds == {"s1", "s2"}
TraceIds == {"trace-42", "trace-x"}
ModelIds == {"model-1", "model-x"}
RunIds == {"run-1", "run-x"}
TargetIds == TraceIds \cup ModelIds \cup RunIds
ExistingTargets == {"trace-42", "model-1", "run-1"}

\* the prompt_versions lists handed to link_prompts_to_trace: empty, one
\* version, a version given as an int and again as a str, and two versions
\* with the first repeated
PV1 == [name |-> "p", version |-> PyInt(1)]
PV1s == [name |-> "p", version |-> PyStr("1")]
PV2 == [name |-> "p", version |-> PyInt(2)]
TraceLists == {<<>>, <<PV1>>, <<PV2>>, <<PV1, PV1s>>, <<PV2, PV1, PV2>>}

\* the (name, version) arguments of link_prompt_version_to_model / _to_run:
\* a version number, an alias, a version that is no prompt version, a model
VersionArgs == {<<"p", PyStr("1")>>, <<"p", PyStr("prod")>>, <<"p", PyStr("3")>>,
                <<"m", PyStr("1")>>}

\* tag values a target may carry before the first link call: none, an array
\* in another formatting, a text that is no JSON, a JSON value that is no array
ForeignArray ==
    [kind |-> "array", style |-> "compact",
     items |-> <<[name |-> "p", version |-> "1", vint |-> FALSE, order |-> "vn"]>>]
InitialTags == {NoTag, ForeignArray,
                [kind |-> "invalid", style |-> "default", items |-> <<>>],
                [kind |-> "nonarray", style |-> "default", items |-> <<>>]}

\* the registry the link calls resolve prompt versions in (they do not write
\* it, so it is kept out of the state of the link protocol): prompt "p" with a
\* text version 1, a chat version 2 (alias "prod") and a version 3 that is no
\* prompt version; registered model "m" with version 1
PromptVersionTags(text, kind) ==
    [NoTags EXCEPT ![IS_PROMPT_TAG_KEY] = TV("true"),
                   ![PROMPT_TEXT_TAG_KEY] = text,
                   ![PROMPT_TYPE_TAG_KEY] = TV(kind)]
LinkRegistry ==
    [rm |-> [n \in Names |->
                [exists |-> TRUE,
                 tags |-> IF n = "p" THEN [NoTags EXCEPT ![IS_PROMPT_TAG_KEY] = TV("true")]
                          ELSE NoTags]],
     mvs |-> [n \in Names |-> [v \in 1..MaxVersion |->
                IF n = "p" /\ v = 1
                THEN [exists |-> TRUE, status |-> "READY", source |-> "prompt-template",
                      tags |-> PromptVersionTags(TV("Hello {{name}}"), PROMPT_TYPE_TEXT)]
                ELSE IF n = "p" /\ v = 2
                THEN [exists |-> TRUE, status |-> "READY", source |-> "prompt-template",
                      tags |-> PromptVersionTags(TemplateDumps(ChatTemplate(<<Hello>>)),
                                                 PROMPT_TYPE_CHAT)]
                ELSE IF v = 1 \/ (n = "p" /\ v = 3)
                THEN [exists |-> TRUE, status |-> "READY", source |-> "runs:/r/model",
                      tags |-> NoTags]
                ELSE NoVersion]],
     aliases |-> [n \in Names |-> [a \in Aliases |-> IF n = "p" THEN 2 ELSE 0]]]

NoLast == [set |-> FALSE, entries |-> <<>>]
IdleThr == [pc |-> "idle", op |-> "none", self |-> "s1", tid |-> "trace-42",
            args |-> <<>>, pv |-> [out |-> "unset", name |-> "", version |-> 0],
            found |-> "unread", cur |-> NoTag, upd |-> NoTag, wrote |-> 0,
            err |-> "none", inrow |-> FALSE]
FreeLock == [owner |-> "none", count |-> 0]

NewEntryNoStr(name, version) == EntryOf(name, version)

\* {"name": prompt_version.name, "version": str(prompt_version.version)}
NewEntry(name, version) == EntryOf(name, Str(version))

NewEntriesAsGiven(c) ==
    [i \in 1..Len(c.args) |-> NewEntry(c.args[i].name, c.args[i].version)]

\* new_prompt_entries of the call thread t is executing
NewEntries(c) ==
    IF c.op = "trace"
    THEN [i \in 1..Len(c.args) |-> NewEntry(c.args[i].name, c.args[i].version)]
    ELSE <<NewEntry(c.pv.name, PyInt(c.pv.version))>>

\* threading.RLock: free, or held by its owner, who may acquire it again
CanAcquireAlways(l, t) == TRUE
CanAcquire(l, t) == l.owner = "none" \/ l.owner = t

\* __setstate__ (and __init__): a store object comes with an RLock of its own
SetState(s) ==
    /\ s \notin stores
    /\ stores' = stores \cup {s}
    /\ lock' = [lock EXCEPT ![s] = FreeLock]
    /\ UNCHANGED <<target, thr, last, ncalls, regVars, pollVars>>

\* Threads and store objects are interchangeable: the first call is made by
\* t1, and t1 makes its calls on s1; t2 makes its calls on s1 until a second
\* store object exists and on that one from then on
MayCall(t, s) ==
    /\ thr[t].pc = "idle"
    /\ ncalls < MaxCalls
    /\ s \in stores
    /\ t = "t1" => s = "s1"
    /\ t # "t1" => ncalls > 0 /\ (s = "s1" <=> stores = {"s1"})

\* link_prompts_to_trace is called (lines 899-911)
CallTrace(t, s, id, pvs) ==
    /\ MayCall(t, s)
    /\ ncalls' = ncalls + 1
    /\ thr' = [thr EXCEPT ![t] = [IdleThr EXCEPT !.pc = "acquire", !.op = "trace",
                                                 !.self = s, !.tid = id, !.args = pvs]]
    /\ UNCHANGED <<stores, lock, target, last, regVars, pollVars>>

\* link_prompt_version_to_model / _to_run is called: get_prompt_version runs
\* before the lock is taken (lines 1002, 1047) and its exception ends the call
CallVersionLink(t, s, op, id, name, version) ==
    /\ MayCall(t, s)
    /\ ncalls' = ncalls + 1
    /\ LET pv == GetPromptVersion(LinkRegistry, name, version)
           c == [IdleThr EXCEPT !.op = op, !.self = s, !.tid = id,
                                !.args = <<[name |-> name, version |-> version]>>,
                                !.pv = [out |-> pv.out, name |-> pv.name,
                                        version |-> pv.version]]
       IN  thr' = [thr EXCEPT ![t] =
                     IF pv.out = "raise"
                     THEN [c EXCEPT !.pc = "done", !.err = pv.err]
                     ELSE [c EXCEPT !.pc = "acquire"]]
    /\ UNCHANGED <<stores, lock, target, last, regVars, pollVars>>

CallModel(t, s, id, name, version) == CallVersionLink(t, s, "model", id, name, version)
CallRun(t, s, id, name, version) == CallVersionLink(t, s, "run", id, name, version)

\* with self._prompt_link_lock: (lines 912, 1005, 1050)
Acquire(t) ==
    /\ thr[t].pc = "acquire"
    /\ CanAcquire(lock[thr[t].self], t)
    /\ lock' = [lock EXCEPT ![thr[t].self] = [owner |-> t, count |-> @.count + 1]]
    /\ thr' = [thr EXCEPT ![t].pc = "read"]
    /\ UNCHANGED <<stores, target, last, ncalls, regVars, pollVars>>

\* the call linking entries directly follows a successful link of the same
\* entries to the same target: the tag is as that call left it
InARow(l, entries) == l.set /\ l.entries = entries

ReadOutcomeNoCheck(c, tg, l) ==
    LET r == UpdateLinkedPromptsTag(tg.tag, NewEntries(c))
    IN  [c EXCEPT !.pc = IF tg.tag # r.value THEN "write" ELSE "release",
                  !.found = IF tg.exists THEN "present" ELSE "absent",
                  !.cur = tg.tag, !.upd = r.value]

\* the locked section up to the decision to write (lines 913-936, 1006-1023,
\* 1051-1076), on the fetched target tg: the frame of call c after it
ReadOutcome(c, tg, l) ==
    LET r == UpdateLinkedPromptsTag(tg.tag, NewEntries(c))
    IN  IF ~tg.exists
        THEN [c EXCEPT !.pc = "release", !.found = "absent", !.err = "DoesNotExist"]
        ELSE IF c.op # "trace" /\ c.pv.out # "pv"
        THEN [c EXCEPT !.pc = "release", !.found = "present", !.err = "AttributeError"]
        ELSE IF r.err # "none"
        THEN [c EXCEPT !.pc = "release", !.found = "present", !.cur = tg.tag,
                       !.err = r.err]
        ELSE [c EXCEPT !.pc = IF tg.tag # r.value THEN "write" ELSE "release",
                       !.found = "present", !.cur = tg.tag, !.upd = r.value,
                       !.inrow = InARow(l, NewEntries(c))]

\* get_trace_info / get_logged_model / get_run: the target is fetched and the
\* merged tag value computed from the tags of the fetched object
ReadTarget(t) ==
    /\ thr[t].pc = "read"
    /\ thr' = [thr EXCEPT ![t] = ReadOutcome(thr[t], target[thr[t].tid], last[thr[t].tid])]
    /\ UNCHANGED <<stores, lock, target, last, ncalls, regVars, pollVars>>

\* set_trace_tag / set_logged_model_tags / set_tag (lines 937-941, 1024-1032, 1079)
WriteTag(t) ==
    /\ thr[t].pc = "write"
    /\ target' = [target EXCEPT ![thr[t].tid].tag = thr[t].upd]
    /\ thr' = [thr EXCEPT ![t].pc = "release", ![t].wrote = @ + 1]
    /\ last' = [last EXCEPT ![thr[t].tid] = NoLast]
    /\ UNCHANGED <<stores, lock, ncalls, regVars, pollVars>>

ReleaseUnlessRaised(t) ==
    /\ thr[t].pc = "release"
    /\ lock' = [lock EXCEPT ![thr[t].self] =
                    IF thr[t].err # "none" THEN @
                    ELSE IF @.count = 1 THEN FreeLock ELSE [@ EXCEPT !.count = @ - 1]]
    /\ thr' = [thr EXCEPT ![t].pc = "done"]
    /\ last' = [last EXCEPT ![thr[t].tid] = NoLast]
    /\ UNCHANGED <<stores, target, ncalls, regVars, pollVars>>

\* the with block is left, normally or by an exception: the lock is released
Release(t) ==
    /\ thr[t].pc = "release"
    /\ lock' = [lock EXCEPT ![thr[t].self] =
                    IF @.count = 1 THEN FreeLock ELSE [@ EXCEPT !.count = @ - 1]]
    /\ thr' = [thr EXCEPT ![t].pc = "done"]
    /\ last' = [last EXCEPT ![thr[t].tid] =
                    IF thr[t].err = "none" /\ target[thr[t].tid].tag = thr[t].upd
                    THEN [set |-> TRUE, entries |-> NewEntries(thr[t])]
                    ELSE NoLast]
    /\ UNCHANGED <<stores, target, ncalls, regVars, pollVars>>

\* the call has returned or raised; the thread is free for its next call
Return(t) ==
    /\ thr[t].pc = "done"
    /\ thr' = [thr EXCEPT ![t] = IdleThr]
    /\ UNCHANGED <<stores, lock, target, last, ncalls, regVars, pollVars>>

InitLink ==
    /\ stores = {"s1"}
    /\ lock = [s \in StoreIds |-> FreeLock]
    /\ \E tag \in InitialTags :
          target = [id \in TargetIds |->
                      [exists |-> id \in ExistingTargets,
                       tag |-> IF id \in ExistingTargets THEN tag ELSE NoTag,
                       fresh |-> tag = NoTag]]
    /\ thr = [t \in Threads |-> IdleThr]
    /\ last = [id \in TargetIds |-> NoLast]
    /\ ncalls = 0
    /\ RegistryUnused
    /\ PollerUnused

NextLink ==
    \/ \E s \in StoreIds : SetState(s)
    \/ \E t \in Threads, s \in StoreIds, id \in TraceIds,
          pvs \in TraceLists : CallTrace(t, s, id, pvs)
    \/ \E t \in Threads, s \in StoreIds, id \in ModelIds, a \in VersionArgs :
            CallModel(t, s, id, a[1], a[2])
    \/ \E t \in Threads, s \in StoreIds, id \in RunIds, a \in VersionArgs :
            CallRun(t, s, id, a[1], a[2])
    \/ \E t \in Threads : Acquire(t)
    \/ \E t \in Threads : ReadTarget(t)
    \/ \E t \in Threads : WriteTag(t)
    \/ \E t \in Threads : Release(t)
    \/ \E t \in Threads : Return(t)

SpecLink == InitLink /\ [][NextLink]_vars

\* The link protocol under fair scheduling, with the arguments that lead to
\* each way out of the with block: a write, an unchanged tag, a missing
\* target, a malformed tag, an unresolved prompt version
InitLinkFair ==
    /\ stores = {"s1"}
    /\ lock = [s \in StoreIds |-> FreeLock]
    /\ \E tag \in {NoTag, [kind |-> "invalid", style |-> "default", items |-> <<>>]} :
          target = [id \in TargetIds |->
                      [exists |-> id \in ExistingTargets,
                       tag |-> IF id \in ExistingTargets THEN tag ELSE NoTag,
                       fresh |-> tag = NoTag]]
    /\ thr = [t \in Threads |-> IdleThr]
    /\ last = [id \in TargetIds |-> NoLast]
    /\ ncalls = 0
    /\ RegistryUnused
    /\ PollerUnused

NextLinkFair ==
    \/ \E s \in StoreIds : SetState(s)
    \/ \E t \in Threads, s \in StoreIds, id \in TraceIds, pvs \in {<<PV1>>, <<PV2>>} :
            CallTrace(t, s, id, pvs)
    \/ \E t \in Threads, s \in StoreIds : CallModel(t, s, "model-1", "p", PyStr("3"))
    \/ \E t \in Threads, s \in StoreIds : CallRun(t, s, "run-1", "p", PyStr("1"))
    \/ \E t \in Threads : Acquire(t)
    \/ \E t \in Threads : ReadTarget(t)
    \/ \E t \in Threads : WriteTag(t)
    \/ \E t \in Threads : Release(t)
    \/ \E t \in Threads : Return(t)

\* a thread inside a link method keeps running: it takes the lock when the
\* lock is free, and it executes the statements of the with block
SpecLinkFair ==
    /\ InitLinkFair
    /\ [][NextLinkFair]_vars
    /\ \A t \in Threads :
          /\ WF_vars(Acquire(t))
          /\ WF_vars(ReadTarget(t))
          /\ WF_vars(WriteTag(t))
          /\ WF_vars(Release(t))

LinkUnused ==
    /\ stores = {"s1"}
    /\ lock = [s \in StoreIds |-> FreeLock]
    /\ target = [id \in TargetIds |->
                    [exists |-> id \in ExistingTargets, tag |-> NoTag, fresh |-> TRUE]]
    /\ thr = [t \in Threads |-> IdleThr]
    /\ last = [id \in TargetIds |-> NoLast]
    /\ ncalls = 0

InitPoll ==
    /\ clock = 0
    /\ sstatus \in StoreStatuses
    /\ poll = PollIdle
    /\ LinkUnused
    /\ RegistryUnused

NextPoll ==
    \/ \E timeout \in 0..MaxTimeout : StartPoll(timeout)
    \/ LoopHead
    \/ CheckDeadline
    \/ Fetch
    \/ Sleep
    \/ Final
    \/ Tick
    \/ \E st \in StoreStatuses : StoreTransition(st)

SpecPoll == InitPoll /\ [][NextPoll]_vars

\* The poller under fair scheduling. The deadline of the call lies a sleep
\* interval before the end of the modelled clock, and the clock is advanced
\* from outside up to there, so that no sleep is cut short by the bound
NextPollFair ==
    \/ \E timeout \in 0..MaxTimeout :
          /\ clock + timeout + AWAIT_MODEL_VERSION_CREATE_SLEEP_INTERVAL_SECONDS <= MaxClock
          /\ StartPoll(timeout)
    \/ LoopHead
    \/ CheckDeadline
    \/ Fetch
    \/ Sleep
    \/ Final
    \/ clock + AWAIT_MODEL_VERSION_CREATE_SLEEP_INTERVAL_SECONDS < MaxClock /\ Tick
    \/ \E st \in StoreStatuses : StoreTransition(st)

\* the calling thread keeps running: each statement of the call is executed,
\* and a sleep ends; the store need never move the version
SpecPollFair ==
    /\ InitPoll
    /\ [][NextPollFair]_vars
    /\ WF_vars(LoopHead) /\ WF_vars(CheckDeadline) /\ WF_vars(Fetch)
    /\ WF_vars(Sleep) /\ WF_vars(Final)

\* a registry with the prompt p (a text version and a chat version, aliased
\* prod) and the model m (one version)
SeedRegistry ==
    [rm |-> [n \in Names |->
                [exists |-> TRUE,
                 tags |-> IF n = "p"
                          THEN [NoTags EXCEPT ![IS_PROMPT_TAG_KEY] = TV("true"),
                                              !["k"] = TV("v")]
                          ELSE NoTags]],
     mvs |-> [n \in Names |-> [v \in 1..MaxVersion |->
                IF n = "p" /\ v = 1
                THEN [exists |-> TRUE, status |-> "READY", source |-> "prompt-template",
                      tags |-> PromptVersionTags(TV("Hello {{name}}"), PROMPT_TYPE_TEXT)]
                ELSE IF n = "p" /\ v = 2
                THEN [exists |-> TRUE, status |-> "READY", source |-> "prompt-template",
                      tags |-> PromptVersionTags(TemplateDumps(ChatTemplate(<<Hello>>)),
                                                 PROMPT_TYPE_CHAT)]
                ELSE IF n = "m" /\ v = 1
                THEN [exists |-> TRUE, status |-> "READY", source |-> "runs:/r/model",
                      tags |-> NoTags]
                ELSE NoVersion]],
     aliases |-> [n \in Names |-> [a \in Aliases |-> IF n = "p" THEN 2 ELSE 0]],
     nextv |-> [n \in Names |-> IF n = "p" THEN 3 ELSE 2]]

EmptyRegistry ==
    [rm |-> [n \in Names |-> NoModel],
     mvs |-> [n \in Names |-> [v \in 1..MaxVersion |-> NoVersion]],
     aliases |-> [n \in Names |-> [a \in Aliases |-> 0]],
     nextv |-> [n \in Names |-> 1]]

InitPrompt ==
    /\ \E reg \in {EmptyRegistry, SeedRegistry} :
          /\ rm = reg.rm
          /\ mvs = reg.mvs
          /\ aliases = reg.aliases
          /\ nextv = reg.nextv
    /\ ret = RetNone
    /\ nops = 0
    /\ LinkUnused
    /\ PollerUnused

NextPrompt ==
    \/ \E name \in Names, tags \in PromptTagLists : CallCreatePrompt(name, tags)
    \/ \E name \in CallNames : CallGetPrompt(name)
    \/ \E name \in Names, tag \in TagPairs : CallSetPromptTag(name, tag)
    \/ \E name \in Names, tag \in TagPairs : CallDeletePromptTag(name, tag.key)
    \/ \E name \in Names : CallDeletePrompt(name)
    \/ \E name \in Names, template \in Templates, tags \in VersionTagLists :
          CallCreatePromptVersion(name, template, tags)
    \/ \E name \in Names, version \in VersionInputs :
          CallGetPromptVersion(name, version)
    \/ CallGetPromptVersion("ghost", PyInt(1))
    \/ \E name \in Names, alias \in {"prod", "3", "abc"} :
          CallGetPromptVersionByAlias(name, alias)
    \/ \E name \in Names, version \in VersionInputs :
          CallDeletePromptVersion(name, version)
    \/ \E name \in Names, version \in VersionInputs :
          CallSetPromptVersionTag(name, version, Tag("k", TV("v2")))
    \/ \E name \in Names, version \in VersionInputs :
          CallDeletePromptVersionTag(name, version, "k")
    \/ \E name \in CallNames, max_results \in {PyNone, PyInt(2)},
          page_token \in {PyNone, PyStr("token")} :
          CallSearchPromptVersions(name, max_results, page_token)

SpecPrompt == InitPrompt /\ [][NextPrompt]_vars

\* Searches of a registry that holds the prompt p and the entity m, a prompt
\* too or a registered model, with the calls that change what a search finds
InitSearch ==
    /\ \E reg \in {SeedRegistry,
                   [SeedRegistry EXCEPT !.rm["m"].tags =
                       [NoTags EXCEPT ![IS_PROMPT_TAG_KEY] = TV("true"), !["k"] = TV("w")]]} :
          /\ rm = reg.rm
          /\ mvs = reg.mvs
          /\ aliases = reg.aliases
          /\ nextv = reg.nextv
    /\ ret = RetNone
    /\ nops = 0
    /\ LinkUnused
    /\ PollerUnused

NextSearch ==
    \/ \E filter_string \in {PyNone, PyStr(""), PyStr("name = 'p'")},
          max_results \in {PyNone, PyInt(1)},
          order_by \in {PyNone, PyStr("name DESC")},
          page_token \in {PyNone, PyStr("token")} :
          CallSearchPrompts(filter_string, max_results, order_by, page_token)
    \/ \E name \in Names, tag \in TagPairs : CallSetPromptTag(name, tag)
    \/ \E name \in Names, tag \in TagPairs : CallDeletePromptTag(name, tag.key)
    \/ \E name \in Names : CallDeletePrompt(name)

SpecSearch == InitSearch /\ [][NextSearch]_vars

\* Calls on a store whose methods may fail for reasons of the store's own:
\* copies of the versions of a registry that holds the prompt p and, or not,
\* the registered model m, and reads of the versions and of the prompts
InitCopy ==
    /\ \E reg \in {SeedRegistry, DeleteRegisteredModel(SeedRegistry, "m").reg} :
          /\ rm = reg.rm
          /\ mvs = reg.mvs
          /\ aliases = reg.aliases
          /\ nextv = reg.nextv
    /\ ret = RetNone
    /\ nops = 0
    /\ LinkUnused
    /\ PollerUnused

NextCopy ==
    \/ \E src_name \in Names, src_version \in 1..MaxVersion,
          run_id \in {PyNone, PyStr("r1")}, dst_name \in Names,
          fault \in {"none", "entity", "version"} :
          CallCopyModelVersion(src_name, src_version, run_id, dst_name, fault)
    \/ \E name \in Names, version \in {PyInt(1), PyInt(3), PyStr("prod")} :
          CallGetPromptVersion(name, version)
    \/ \E name \in CallNames, fault \in {"none", "error"} :
          CallGetPromptOfStore(name, fault)

SpecCopy == InitCopy /\ [][NextCopy]_vars

----------------------------------------------------------------------------
(* Properties of the link merge protocol (SpecLink) *)

InLockedSection(t) == thr[t].pc \in {"read", "write", "release"}
Finished(t) == thr[t].pc = "done"
Succeeded(t) == thr[t].pc = "done" /\ thr[t].err = "none"

\* the number of entries of a parsed array with the name and version of e
Count(items, e) ==
    Cardinality({i \in 1..Len(items) : items[i].name = e.name /\ items[i].version = e.version})

\* C1: when two threads have linked two distinct {name, version} pairs to the
\* same target and both calls have returned, the target's linked-prompts array
\* holds both entries, each exactly once.
C1_BothEntriesPresent ==
    \A t, u \in Threads :
        (/\ t # u /\ Succeeded(t) /\ Succeeded(u)
         /\ thr[t].tid = thr[u].tid
         /\ Len(NewEntries(thr[t])) = 1 /\ Len(NewEntries(thr[u])) = 1
         /\ NewEntries(thr[t]) # NewEntries(thr[u]))
        => /\ Count(target[thr[t].tid].tag.items, NewEntries(thr[t])[1]) = 1
           /\ Count(target[thr[t].tid].tag.items, NewEntries(thr[u])[1]) = 1

\* C2: a link call that directly follows a successful link of the same
\* entries to the same target issues no tag write and computes the tag value
\* it read, which holds each of the entries exactly once.
C2_SecondLinkIsNoOp ==
    \A t \in Threads :
        (thr[t].pc \in {"write", "release", "done"} /\ thr[t].inrow)
        => /\ thr[t].pc # "write"
           /\ thr[t].wrote = 0
           /\ thr[t].upd = thr[t].cur
           /\ \A i \in 1..Len(NewEntries(thr[t])) :
                 Count(thr[t].cur.items, NewEntries(thr[t])[i]) = 1

C2_Witness ==
    \E t \in Threads :
        /\ Succeeded(t) /\ thr[t].inrow /\ Len(NewEntries(thr[t])) = 1
        /\ target[thr[t].tid].tag = thr[t].cur

\* C3: on a target that started without a linked-prompts tag, the tag's array
\* never holds two entries with the same name and version, and every entry's
\* version is a JSON string.
C3_NoDuplicateStringVersions ==
    \A id \in TargetIds :
        target[id].fresh
        => LET items == target[id].tag.items
           IN  /\ \A i, j \in 1..Len(items) :
                     i # j => ~(items[i].name = items[j].name
                                /\ items[i].version = items[j].version)
               /\ \A i \in 1..Len(items) : ~items[i].vint

C3_Witness ==
    \E t \in Threads :
        /\ Succeeded(t) /\ thr[t].op = "trace" /\ thr[t].args = <<PV1, PV1s>>
        /\ thr[t].wrote = 1 /\ target[thr[t].tid].fresh
        /\ target[thr[t].tid].tag = thr[t].upd
        /\ Len(thr[t].upd.items) = 2

\* C4: at any moment at most one thread of the process is inside the locked
\* read / merge / write section of a link operation, whichever store objects
\* the calls are made on.
C4_OneThreadInLockedSection ==
    Cardinality({t \in Threads : InLockedSection(t)}) <= 1

\* the lock serialises the calls made on one store object
MutexPerStoreObject ==
    \A t, u \in Threads :
        (t # u /\ InLockedSection(t) /\ InLockedSection(u)) => thr[t].self # thr[u].self

\* C10: when the read of the target returns absent, the link call fails with
\* DoesNotExist, has issued no tag write, and the target is not created.
C10_MissingTargetFails ==
    \A t \in Threads :
        thr[t].found = "absent"
        => /\ thr[t].err = "DoesNotExist"
           /\ thr[t].pc \in {"release", "done"}
           /\ thr[t].wrote = 0
           /\ ~target[thr[t].tid].exists
           /\ target[thr[t].tid].tag = NoTag

C10_Witness ==
    \E t \in Threads :
        /\ Finished(t) /\ thr[t].found = "absent"
        /\ thr[t].op = "model" /\ thr[t].pv.out = "none"

----------------------------------------------------------------------------
(* Properties of the status poller (SpecPoll) *)

\* C8: called on a PENDING_REGISTRATION version, the poller returns normally
\* when the version it last fetched is READY (so also when the store makes it
\* READY after two poll cycles), and it fails with Timeout exactly when it
\* still sees PENDING_REGISTRATION with the clock past start + timeout.
C8_ReadyReturnsPendingTimesOut ==
    (poll.pc = "done" /\ poll.first = PENDING_REGISTRATION)
    => /\ poll.mv.status = READY => poll.out.kind = "ok"
       /\ poll.mv.status = PENDING_REGISTRATION
            => poll.out.kind = "Timeout" /\ poll.tclock > poll.max_time
       /\ poll.out.kind = "Timeout" => poll.mv.status = PENDING_REGISTRATION

C8_Witness ==
    /\ poll.pc = "done" /\ poll.first = PENDING_REGISTRATION
    /\ poll.fetches = 3 /\ poll.sleeps = 2
    /\ poll.mv.status = READY /\ poll.out.kind = "ok"

\* C9: the poller returns normally only if the status it observed last is
\* READY; a last status that is neither PENDING_REGISTRATION nor READY gives a
\* creation-failed error carrying that status and the store's message; and no
\* fetch is made once a non-pending status has been observed.
C9_OnlyReadyReturns ==
    /\ ~poll.refetched
    /\ poll.pc = "done"
        => /\ poll.out.kind = "ok" => poll.mv.status = READY
           /\ poll.mv.status \notin {PENDING_REGISTRATION, READY}
                => poll.out = [kind |-> "CreationFailed", status |-> poll.mv.status,
                               message |-> poll.mv.message]

C9_Witness ==
    /\ poll.pc = "done" /\ poll.fetches >= 2
    /\ poll.mv.status = FAILED_REGISTRATION
    /\ poll.out.kind = "CreationFailed"


----------------------------------------------------------------------------
(* Properties of the prompt adaptation layer (SpecPrompt) *)

\* the tag map of an entity without the reserved marker
WithoutMarker(tags) ==
    [k \in TagKeys |-> IF k = IS_PROMPT_TAG_KEY THEN Absent ELSE tags[k]]

\* C5: get_prompt of an entity whose marker tag is "true" returns a Prompt
\* whose tags are the entity's tags without the marker; get_prompt of an
\* entity with no marker, or a marker that is not "true", returns None and
\* does not raise.
C5_GetPromptFollowsMarker ==
    (ret.op = "get_prompt" /\ ret.name \in Names /\ rm[ret.name].exists) =>
        IF rm[ret.name].tags[IS_PROMPT_TAG_KEY] = TV("true")
        THEN ret.out = "prompt" /\ ret.tags = WithoutMarker(rm[ret.name].tags)
        ELSE ret.out = "none"

\* get_prompt returned a Prompt carrying a user tag, after a write
C5_Witness ==
    /\ ret.op = "get_prompt"
    /\ ret.out = "prompt"
    /\ ret.tags["k"] = TV("v2")
    /\ rm[ret.name].tags[IS_PROMPT_TAG_KEY] = TV("true")

\* get_prompt returned None for an entity whose marker is "false"
C5_WitnessNotTrue ==
    /\ ret.op = "get_prompt"
    /\ ret.out = "none"
    /\ ret.name \in Names
    /\ rm[ret.name].exists
    /\ rm[ret.name].tags[IS_PROMPT_TAG_KEY] = TV("false")

\* get_prompt_version(name, v) right after the create_prompt_version call
\* that returned version v of the prompt name
ReadBackOfCreated ==
    /\ ret.op = "get_prompt_version"
    /\ ret.created.set
    /\ ret.name = ret.created.name
    /\ ret.version = PyInt(ret.created.version)
    /\ rm[ret.name].tags[IS_PROMPT_TAG_KEY] = TV("true")

RoundTrips ==
    /\ ret.out = "pv"
    /\ ret.pv.template = ret.created.template
    /\ ret.pv.kind = IF ret.created.template.py = "str" THEN PROMPT_TYPE_TEXT
                     ELSE PROMPT_TYPE_CHAT

\* C6: create_prompt_version(name, template, ...) followed by
\* get_prompt_version(name, created version) returns a PromptVersion whose
\* template equals the input template and whose kind is text for a str and
\* chat for a list of role/content records.
C6_TemplateRoundTrips == ReadBackOfCreated => RoundTrips

ReservedKeys == {IS_PROMPT_TAG_KEY, PROMPT_TEXT_TAG_KEY, PROMPT_TYPE_TAG_KEY,
                 RESPONSE_FORMAT_TAG_KEY}

\* the round trip of C6 for the calls whose tags= argument names no reserved key
RoundTripWithoutReservedCallerTags ==
    (ReadBackOfCreated
     /\ \A i \in 1..Len(ret.created.ctags) : ret.created.ctags[i].key \notin ReservedKeys)
        => RoundTrips

\* a chat template was read back
RoundTripWitness ==
    /\ ReadBackOfCreated
    /\ ret.out = "pv"
    /\ ret.pv.kind = PROMPT_TYPE_CHAT
    /\ ret.pv.template = ChatTemplate(<<Hello>>)

VersionOps == {"delete_prompt_version", "set_prompt_version_tag",
               "delete_prompt_version_tag"}

\* the integer a version argument denotes, 0 when int() rejects it
Denotes(version) ==
    IF version = PyInt(1) THEN 1
    ELSE IF version = PyStr(" 2 ") THEN 2
    ELSE IF version \in {PyInt(3), PyStr("3")} THEN 3
    ELSE 0

\* the store method a version operation delegates to
Delegate(op) ==
    IF op = "delete_prompt_version" THEN "delete_model_version"
    ELSE IF op = "set_prompt_version_tag" THEN "set_model_version_tag"
    ELSE "delete_model_version_tag"

C7_WitnessAlias ==
    /\ ret.op = "set_prompt_version_tag"
    /\ ret.version = PyStr("prod")
    /\ ret.out = "raise"
    /\ aliases[ret.name]["prod"] # 0

----------------------------------------------------------------------------
(* Further properties of the link merge protocol (SpecLink) *)

Malformed(tag) == tag.kind \in {"invalid", "nonarray"}
PastRead(t) == thr[t].pc \in {"write", "release", "done"} /\ thr[t].found # "unread"

\* C11: a link call that finds the target with a linked-prompts tag that is
\* no JSON, or JSON that is no array, fails, issues no tag write, and the tag
\* keeps the malformed value it had.
C11_MalformedTagIsKept ==
    \A t \in Threads :
        (PastRead(t) /\ thr[t].found = "present" /\ Malformed(target[thr[t].tid].tag))
        => /\ thr[t].err # "none"
           /\ thr[t].pc # "write"
           /\ thr[t].wrote = 0
           /\ target[thr[t].tid].tag \in InitialTags
           /\ thr[t].err \in {"InvalidJSON", "InvalidFormat"}
                => thr[t].cur = target[thr[t].tid].tag
           /\ (thr[t].op = "trace" \/ thr[t].pv.out = "pv")
                => thr[t].err = IF target[thr[t].tid].tag.kind = "invalid"
                                THEN "InvalidJSON" ELSE "InvalidFormat"

\* a link to a run whose tag is JSON but no array has failed
C11_Witness ==
    \E t \in Threads :
        /\ Finished(t) /\ thr[t].op = "run" /\ thr[t].err = "InvalidFormat"
        /\ target[thr[t].tid].tag.kind = "nonarray"

\* a lock is held only by a thread inside the with block of a call on the
\* store object the lock belongs to
LockHeldOnlyInside ==
    \A s \in StoreIds :
        lock[s].owner # "none"
        => /\ lock[s].count = 1
           /\ InLockedSection(lock[s].owner)
           /\ thr[lock[s].owner].self = s

\* C12: the lock is released on every exit path of a link call (success,
\* missing target, malformed tag, any other failure in the with block): no
\* thread holds a lock after its call has ended, and a thread waiting for the
\* lock eventually enters the with block.
C12_LockReleasedOnEveryExit ==
    /\ []LockHeldOnlyInside
    /\ \A t \in Threads : (thr[t].pc = "acquire") ~> (thr[t].pc = "read")

\* a thread waits for the lock of the store object while the call holding it
\* is leaving the with block by an exception
C12_Witness ==
    \E t, u \in Threads :
        /\ t # u /\ thr[t].self = thr[u].self
        /\ thr[t].pc = "release" /\ thr[t].err \in {"InvalidJSON", "AttributeError"}
        /\ lock[thr[t].self].owner = t
        /\ thr[u].pc = "acquire"

----------------------------------------------------------------------------
(* Further properties of the prompt adaptation layer (SpecPrompt) *)

VersionLookups == {"get_model_version", "get_model_version_by_alias"}

\* C13: get_prompt_version fetches the parent entity before any version or
\* alias lookup, and for an entity whose marker tag is absent or not "true"
\* it raises the 'registered as a model, not a prompt' error, never returns
\* None, and issues no version or alias lookup.
C13_MarkerCheckedBeforeLookup ==
    ret.op = "get_prompt_version" =>
        /\ Len(ret.calls) >= 1
        /\ ret.calls[1] = StoreCall("get_registered_model", ret.name, 0, "", Absent)
        /\ \A i \in 2..Len(ret.calls) : ret.calls[i].f \in VersionLookups
        /\ (ret.name \in Names /\ rm[ret.name].exists
            /\ rm[ret.name].tags[IS_PROMPT_TAG_KEY] # TV("true"))
           => /\ ret.out = "raise"
              /\ ret.err = "NotAPrompt"
              /\ Len(ret.calls) = 1

\* get_prompt_version of an existing version of an entity whose marker is
\* "false" raised the model-not-prompt error
C13_Witness ==
    /\ ret.op = "get_prompt_version"
    /\ ret.name \in Names
    /\ rm[ret.name].tags[IS_PROMPT_TAG_KEY] = TV("false")
    /\ ret.version = PyInt(1)
    /\ mvs[ret.name][1].exists
    /\ ret.err = "NotAPrompt"

\* the store signals that the entity, the version or the alias of the last
\* get_prompt / get_prompt_version call does not exist
NotFoundSignalled ==
    \/ ret.name \notin Names
    \/ ~rm[ret.name].exists
    \/ /\ ret.op = "get_prompt_version"
       /\ rm[ret.name].tags[IS_PROMPT_TAG_KEY] = TV("true")
       /\ ~LookupVersion(Registry, ret.name, ret.version).ok

\* C14: when the store signals that the entity, the version or the alias does
\* not exist, get_prompt and get_prompt_version return None and do not raise.
C14_NotFoundGivesNone ==
    (ret.op \in {"get_prompt", "get_prompt_version"} /\ NotFoundSignalled)
        => ret.out = "none"

\* the part of C14 that is about get_prompt
GetPromptNotFoundGivesNone ==
    (ret.op = "get_prompt" /\ NotFoundSignalled) => ret.out = "none"

\* the tags= argument of the last call as a tag map
CallerTagMap == ApplyTags(NoTags, ret.ctags)

\* create_prompt returned: the stored entity has the marker "true" and the
\* user tags, and the returned Prompt has the user tags without the marker
CreatedPromptIsStored ==
    /\ rm[ret.name].exists
    /\ rm[ret.name].tags[IS_PROMPT_TAG_KEY] = TV("true")
    /\ \A k \in TagKeys \ {IS_PROMPT_TAG_KEY} : rm[ret.name].tags[k] = CallerTagMap[k]
    /\ ret.tags = WithoutMarker(CallerTagMap)

\* C15: create_prompt, for every user tag map (empty, or holding the reserved
\* marker key): the entity given to the store has the marker "true" and all
\* user tags, the returned Prompt has the user tags without the marker, and a
\* get_prompt that follows returns that prompt; a duplicate name is rejected
\* by the store, the failure is propagated and the registry is unchanged.
C15_CreatePromptMarksEntity ==
    /\ (ret.op = "create_prompt" /\ ret.out = "prompt") => CreatedPromptIsStored
    /\ (ret.op = "create_prompt" /\ ret.out = "raise")
            => ret.err = "AlreadyExists" /\ ~ret.changed
    /\ (ret.op = "get_prompt" /\ ret.createdPrompt.set)
            => ret.out = "prompt" /\ ret.tags = ret.createdPrompt.tags

\* C15 for the user tag maps without the reserved marker key
CreatePromptWithoutMarkerInTags ==
    /\ (ret.op = "create_prompt" /\ ret.out = "prompt"
        /\ \A i \in 1..Len(ret.ctags) : ret.ctags[i].key # IS_PROMPT_TAG_KEY)
           => CreatedPromptIsStored
    /\ (ret.op = "create_prompt" /\ ret.out = "raise")
            => ret.err = "AlreadyExists" /\ ~ret.changed
    /\ (ret.op = "get_prompt" /\ ret.createdPrompt.set
        /\ ret.createdPrompt.tags[IS_PROMPT_TAG_KEY] = Absent)
            => ret.out = "prompt" /\ ret.tags = ret.createdPrompt.tags

\* get_prompt returned the prompt that create_prompt, given a user tag, had
\* just returned
CreatePromptWitness ==
    /\ ret.op = "get_prompt" /\ ret.createdPrompt.set
    /\ ret.out = "prompt" /\ ret.tags["k"] = TV("v")

ItemsOf(tag) == IF tag.kind = "array" THEN tag.items ELSE <<>>

\* merged is read followed by every entry of new that is not in read, each
\* once, in the order in which new gives them
IsFullMerge(merged, read, new) ==
    LET n == Len(read)
        first(i) == /\ ~Contains(read, new[i])
                    /\ \A j \in 1..(i - 1) : ~DictEq(new[j], new[i])
    IN  /\ Len(merged) >= n
        /\ SubSeq(merged, 1, n) = read
        /\ Len(merged) - n = Cardinality({i \in 1..Len(new) : first(i)})
        /\ \A k \in (n + 1)..Len(merged) :
              \E i \in 1..Len(new) :
                 /\ first(i)
                 /\ merged[k] = new[i]
                 /\ k - n = Cardinality({j \in 1..i : first(j)})

\* what a call is about to write, or has written, is the full merge of the
\* value it read; it writes at most once, and not at all when it fails
WritesFullMergeOrNothing ==
    \A t \in Threads :
       /\ thr[t].wrote <= 1
       /\ thr[t].err # "none" => thr[t].wrote = 0 /\ thr[t].pc # "write"
       /\ thr[t].pc = "write" \/ thr[t].wrote = 1
          => /\ thr[t].upd.kind = "array"
             /\ IsFullMerge(thr[t].upd.items, ItemsOf(thr[t].cur), NewEntries(thr[t]))

\* a target changes only by the one write of a call addressed to it, which
\* sets its linked-prompts tag to the merged value of that call
OnlyAddressedTargetWritten ==
    \A id \in TargetIds :
       target'[id] # target[id]
       => \E t \in Threads :
             /\ thr[t].pc = "write" /\ thr[t].tid = id
             /\ thr[t].wrote = 0 /\ thr'[t].wrote = 1
             /\ target' = [target EXCEPT ![id].tag = thr[t].upd]

\* C17: a link call issues at most one tag write, to the linked-prompts tag
\* of the target it addresses and to nothing else; the value written is the
\* whole merged array (the entries read in the call, then every new entry not
\* yet present); a call that fails issues no write.
C17_FullMergeOrNothing ==
    /\ []WritesFullMergeOrNothing
    /\ [][OnlyAddressedTargetWritten]_vars

\* a call that read an array with one entry has written it back together
\* with a new one, and another call has failed without writing
C17_Witness ==
    \E t, u \in Threads :
       /\ thr[t].pc = "done" /\ thr[t].wrote = 1 /\ thr[t].err = "none"
       /\ Len(ItemsOf(thr[t].cur)) = 1 /\ Len(thr[t].upd.items) = 2
       /\ target[thr[t].tid].tag = thr[t].upd
       /\ thr[u].pc = "done" /\ thr[u].err # "none" /\ thr[u].found # "unread"

\* every entry the call links is in the array it read
NothingNew(c) ==
    /\ c.cur.kind = "array"
    /\ \A i \in 1..Len(NewEntries(c)) : Contains(c.cur.items, NewEntries(c)[i])

\* the call has issued its write or is about to
Writes(c) == c.pc = "write" \/ c.wrote = 1

\* C18: a link call whose target's tag parses as a JSON array that already
\* contains every entry being linked (an empty list of entries included),
\* however that stored value is formatted, issues no tag write; a call with
\* at least one new entry, also on a target without the tag, issues the write.
C18_WriteSkippedWhenNothingNew ==
    \A t \in Threads :
       PastRead(t) /\ thr[t].err = "none"
       => /\ NothingNew(thr[t]) => ~Writes(thr[t])
          /\ (\E i \in 1..Len(NewEntries(thr[t])) :
                 ~Contains(ItemsOf(thr[t].cur), NewEntries(thr[t])[i]))
             => Writes(thr[t])

\* the write is skipped when the stored array has the formatting json.dumps
\* gives it, and it is issued whenever an entry is new
WriteSkippedForOwnFormatting ==
    \A t \in Threads :
       PastRead(t) /\ thr[t].err = "none"
       => /\ NothingNew(thr[t]) /\ thr[t].cur.style = "default" => ~Writes(thr[t])
          /\ (\E i \in 1..Len(NewEntries(thr[t])) :
                 ~Contains(ItemsOf(thr[t].cur), NewEntries(thr[t])[i]))
             => Writes(thr[t])

\* a call that read an array in json.dumps formatting holding its entry has
\* returned without a write
WriteSkippedWitness ==
    \E t \in Threads :
       /\ thr[t].pc = "done" /\ thr[t].err = "none" /\ thr[t].wrote = 0
       /\ NothingNew(thr[t]) /\ thr[t].cur.style = "default"
       /\ Len(NewEntries(thr[t])) > 0

\* in this step the array of each target keeps its entries in place, and what
\* a writing call adds are its new entries, behind the old ones, in the order
\* in which the call was given them
AppendsOnly ==
    \A id \in TargetIds :
       target'[id] # target[id]
       => \E t \in Threads :
             /\ thr[t].pc = "write" /\ thr[t].tid = id
             /\ IsFullMerge(ItemsOf(target'[id].tag), ItemsOf(target[id].tag),
                            NewEntries(thr[t]))

\* C19: the linked-prompts array of a target is append-only: every link
\* operation leaves the array it found as a prefix of the array it leaves
\* (nothing removed, changed or reordered), with the new entries behind the
\* old ones in the order given.
C19_ArrayIsAppendOnly == [][AppendsOnly]_vars

\* with all calls made on one store object the array is append-only
AppendOnlyOnOneStoreObject == [][stores = {"s1"} => AppendsOnly]_vars

\* a call on the only store object has appended its entry behind the one
\* another call had appended
AppendOnlyWitness ==
    \E t \in Threads :
       /\ stores = {"s1"} /\ thr[t].pc = "done" /\ thr[t].wrote = 1
       /\ Len(ItemsOf(thr[t].cur)) = 1
       /\ target[thr[t].tid].tag.kind = "array"
       /\ Len(target[thr[t].tid].tag.items) = 2
       /\ target[thr[t].tid].fresh

----------------------------------------------------------------------------
(* Further properties of the status poller (SpecPoll) *)

\* every fetch of the loop comes after a deadline check of its own
CheckedBeforeEachFetch ==
    /\ poll.fetches <= poll.checks
    /\ poll.pc = "fetch" => poll.checks = poll.fetches + 1

\* C20: the deadline is checked before each re-fetch, and a poller that first
\* finds the clock at or past the deadline makes one more re-fetch before it
\* may raise the timeout: no timeout is raised without a fetch after that
\* check, and none for a version the store already has as READY.
C20_OneMoreFetchAtDeadline ==
    /\ CheckedBeforeEachFetch
    /\ poll.out.kind = "Timeout"
       => /\ poll.late.seen
          /\ poll.fetches > poll.late.fetches
          /\ poll.tstore # READY

\* a check that finds the clock exactly at the deadline is followed by a
\* fetch, and a timeout is raised only with the clock past the deadline
BoundaryCheckStillFetches ==
    /\ CheckedBeforeEachFetch
    /\ poll.late.seen /\ poll.late.clock = poll.max_time
       => poll.pc = "fetch" \/ poll.fetches > poll.late.fetches
    /\ poll.out.kind = "Timeout" => poll.tclock > poll.max_time

\* the version became READY by the check at the deadline, and the call
\* returned normally after the fetch that followed
BoundaryWitness ==
    /\ poll.pc = "done" /\ poll.out.kind = "ok"
    /\ poll.late.seen /\ poll.late.clock = poll.max_time
    /\ poll.late.fetches >= 1 /\ poll.fetches = poll.late.fetches + 1

\* a step of the poller: the call starts or one of its statements runs
PollerStep == poll' # poll

\* C21: the poller only observes: no step of a call changes the version's
\* status or message or anything else the store holds; the version changes
\* only by the store's own transition, in a step in which the poller does
\* nothing, and the only store method the call uses is get_model_version.
C21_PollerOnlyObserves ==
    [][/\ PollerStep => sstatus' = sstatus /\ regVars' = regVars
       /\ sstatus' # sstatus => poll' = poll
       /\ poll'.fetches # poll.fetches => poll.pc = "fetch" /\ poll'.mv = sstatus]_vars

\* the store made the version READY between two fetches of a running call,
\* which still holds the status it fetched before
C21_Witness ==
    /\ poll.pc \in {"sleep", "while", "check", "fetch"}
    /\ poll.fetches >= 2
    /\ poll.mv.status = PENDING_REGISTRATION
    /\ sstatus.status = READY

\* the call has ended in one of its three outcomes, and in a timeout only
\* with PENDING_REGISTRATION observed last and the clock past the deadline
EndedInOneOutcome ==
    poll.pc = "done"
    => /\ poll.out.kind \in {"ok", "Timeout", "CreationFailed"}
       /\ poll.out.kind = "Timeout"
          => /\ poll.mv.status = PENDING_REGISTRATION
             /\ poll.tclock > poll.max_time

\* C22: the poller terminates: whatever the timeout and whatever the store
\* does (a version that stays PENDING_REGISTRATION forever included), a call
\* ends, in a normal return, a timeout error or a creation-failed error; the
\* timeout error is raised only with PENDING_REGISTRATION observed last and
\* the clock past the deadline.
C22_PollerTerminates ==
    /\ []EndedInOneOutcome
    /\ (poll.pc # "idle") ~> (poll.pc = "done")

\* the version stayed PENDING_REGISTRATION in the store and the call ended
\* with the timeout error after three fetches
C22_Witness ==
    /\ poll.pc = "done" /\ poll.out.kind = "Timeout"
    /\ sstatus.status = PENDING_REGISTRATION
    /\ poll.fetches = 3 /\ poll.sleeps = 3

\* the calls that resolve a prompt version
Resolvers == {"get_prompt_version", "get_prompt_version_by_alias"}

\* the last call resolved a version argument: it got as far as the lookup
Resolved == ret.op \in Resolvers /\ Len(ret.calls) = 2

C23_WitnessAlias ==
    /\ ret.op = "get_prompt_version" /\ ret.version = PyStr("prod")
    /\ ret.out = "pv" /\ ret.pv.version = 2

\* the last call was a create_prompt_version that created a version; the
\* version it created
JustCreated == ret.op = "create_prompt_version" /\ ret.changed
NewVersion == mvs[ret.name][nextv[ret.name] - 1]

\* the created version carries the marker, the serialized template, the kind
\* of the template, every caller tag, and the source "prompt-template"
IsPromptVersionOf(mv, template, ctags) ==
    /\ mv.exists
    /\ mv.source = "prompt-template"
    /\ mv.tags[IS_PROMPT_TAG_KEY] = TV("true")
    /\ mv.tags[PROMPT_TEXT_TAG_KEY] = IF template.py = "str" THEN TV(template.s)
                                      ELSE TemplateDumps(template)
    /\ mv.tags[PROMPT_TYPE_TAG_KEY] = IF template.py = "str" THEN TV(PROMPT_TYPE_TEXT)
                                      ELSE TV(PROMPT_TYPE_CHAT)
    /\ \A i \in 1..Len(ctags) : mv.tags[ctags[i].key] = ctags[i].value

\* C24: every version created by create_prompt_version, for every template
\* and every caller tag map (keys equal to a reserved key included), has the
\* marker tag "true", the template-body tag equal to the serialized template,
\* the template-kind tag matching the template's shape, all caller tags, and
\* the source "prompt-template".
C24_CreatedVersionIsPromptVersion ==
    JustCreated => IsPromptVersionOf(NewVersion, ret.template, ret.ctags)

\* the same for the calls whose tags= argument names no reserved key
CreatedVersionWithoutReservedCallerTags ==
    (JustCreated /\ \A i \in 1..Len(ret.ctags) : ret.ctags[i].key \notin ReservedKeys)
    => IsPromptVersionOf(NewVersion, ret.template, ret.ctags)

\* a chat template with a caller tag was stored as a prompt version
CreatedVersionWitness ==
    /\ JustCreated
    /\ ret.template = ChatTemplate(<<Hello>>)
    /\ ret.ctags = <<Tag("k", TV("v"))>>
    /\ IsPromptVersionOf(NewVersion, ret.template, ret.ctags)

----------------------------------------------------------------------------
(* Properties of search_prompts (SpecSearch) *)

\* the page the store gives for the search the last call made
StorePage ==
    SearchRegisteredModels(Registry, ret.calls[1].filter, ret.calls[1].max_results,
                           ret.calls[1].order_by, ret.calls[1].page_token)

\* C25: search_prompts makes one entity search, with the marker condition
\* as the filter when the caller gives none and the marker condition AND the
\* caller's filter otherwise, max_results 100 when none is given, and order_by
\* and page_token as given; it returns one Prompt per entity of the store's
\* page, in the store's order, without the marker tag, and the store's token.
C25_SearchPromptsDelegates ==
    ret.op = "search_prompts"
    => /\ Len(ret.calls) = 1
       /\ ret.calls[1].f = "search_registered_models"
       /\ ret.calls[1].filter =
             IF ret.filter_string \in {PyNone, PyStr("")} THEN <<MarkerCondition>>
             ELSE <<MarkerCondition, "AND", ret.filter_string.s>>
       /\ ret.calls[1].max_results =
             IF ret.max_results = PyNone THEN 100 ELSE Denotes(ret.max_results)
       /\ ret.calls[1].order_by = ret.order_by
       /\ ret.calls[1].page_token = ret.page_token
       /\ ~ret.changed
       /\ ret.out = "page"
       /\ Len(ret.page.items) = Len(StorePage.items)
       /\ \A i \in 1..Len(ret.page.items) :
             /\ ret.page.items[i].name = StorePage.items[i].name
             /\ ret.page.items[i].tags[IS_PROMPT_TAG_KEY] = Absent
             /\ \A k \in TagKeys \ {IS_PROMPT_TAG_KEY} :
                   ret.page.items[i].tags[k] = StorePage.items[i].tags[k]
             /\ rm[ret.page.items[i].name].tags[IS_PROMPT_TAG_KEY] = TV("true")
       /\ ret.page.token = StorePage.token

\* a search without filter, in descending order, found the prompts p and m
C25_Witness ==
    /\ ret.op = "search_prompts"
    /\ ret.filter_string = PyNone /\ ret.max_results = PyNone
    /\ ret.order_by = PyStr("name DESC")
    /\ Len(ret.page.items) = 2
    /\ ret.page.items[1].name = "p" /\ ret.page.items[2].name = "m"
    /\ ret.page.items[2].tags["k"] = TV("w")

\* a search with a filter and a page size of one returned the first page and
\* the store's token
C25_WitnessToken ==
    /\ ret.op = "search_prompts"
    /\ ret.max_results = PyInt(1) /\ ret.page_token = PyNone
    /\ Len(ret.page.items) = 1
    /\ ret.page.token = PyStr("token")

----------------------------------------------------------------------------
(* Further properties of the prompt adaptation layer: pass-through, copy *)

PassThroughs == {"delete_prompt", "set_prompt_tag", "delete_prompt_tag"}

\* the entity operation a pass-through call makes
EntityCall ==
    IF ret.op = "delete_prompt"
    THEN StoreCall("delete_registered_model", ret.name, 0, "", Absent)
    ELSE IF ret.op = "set_prompt_tag"
    THEN StoreCall("set_registered_model_tag", ret.name, 0, ret.key, ret.value)
    ELSE StoreCall("delete_registered_model_tag", ret.name, 0, ret.key, Absent)

\* C26: delete_prompt, set_prompt_tag and delete_prompt_tag make exactly one
\* call, of the corresponding entity operation with the same name, key and
\* value, and no read or marker check before it: they fail only as the store
\* fails, and they take effect on an entity without the prompt marker as on
\* a prompt.
C26_PassThrough ==
    ret.op \in PassThroughs
    => /\ ret.calls = <<EntityCall>>
       /\ ret.out \in {"ok", "raise"}
       /\ ret.out = "raise" => ret.err = "DoesNotExist" /\ ~ret.changed
       /\ ret.op = "delete_prompt" => ~rm[ret.name].exists
       /\ ret.op # "delete_prompt" => (ret.out = "ok" <=> rm[ret.name].exists)
       /\ ret.op = "set_prompt_tag" /\ ret.out = "ok"
          => rm[ret.name].tags[ret.key] = ret.value
       /\ ret.op = "delete_prompt_tag" /\ ret.out = "ok"
          => rm[ret.name].tags[ret.key] = Absent

\* delete_prompt("m") deleted the registered model m, which has versions and
\* no prompt marker
C26_Witness ==
    /\ ret.op = "delete_prompt" /\ ret.name = "m"
    /\ ret.out = "ok" /\ ret.changed
    /\ ~rm["m"].exists
    /\ rm["p"].exists

\* a step that is a call of copy_model_version: the call, its source version
\* and the entity it copies to
CopyStep == ret'.op = "copy_model_version" /\ nops' = nops + 1
TheCopy ==
    [exists |-> TRUE, tags |-> ret'.src_mv.tags, status |-> "PENDING_REGISTRATION",
     source |-> "models:/" \o ret'.src_mv.name \o "/" \o Numeral[ret'.src_mv.version]]

CopiesOneVersionOrFails ==
    LET dst == ret'.name
        src == ret'.src_mv
        entityMade == [rm EXCEPT ![dst] = IF rm[dst].exists THEN rm[dst]
                                          ELSE [exists |-> TRUE, tags |-> NoTags]]
    IN  /\ ret'.calls[1] = StoreCall("create_registered_model", dst, 0, "", Absent)
        /\ aliases' = aliases
        /\ ret'.fault = "entity"
           => /\ ret'.out = "raise" /\ ret'.err = "PermissionDenied"
              /\ Len(ret'.calls) = 1
              /\ rm' = rm /\ mvs' = mvs /\ nextv' = nextv
        /\ ret'.fault # "entity"
           => /\ rm' = entityMade
              /\ Len(ret'.calls) = 2
              /\ ret'.calls[2].f = "create_model_version"
              /\ ret'.calls[2].name = dst
              /\ ret'.calls[2].source = TheCopy.source
              /\ ret'.calls[2].run_id = src.run_id
              /\ ret'.calls[2].run_link = src.run_link
              /\ ret'.calls[2].description = src.description
              /\ ApplyTags(NoTags, ret'.calls[2].tags) = src.tags
        /\ ret'.fault = "version"
           => /\ ret'.out = "raise" /\ ret'.err = "CopyFailed"
              /\ mvs' = mvs /\ nextv' = nextv
        /\ ret'.fault = "none"
           => /\ ret'.out = "mv"
              /\ ret'.pv.version = IF rm[dst].exists THEN nextv[dst] ELSE 1
              /\ mvs' = [mvs EXCEPT ![dst][ret'.pv.version] = TheCopy]
              /\ nextv' = [nextv EXCEPT ![dst] = ret'.pv.version + 1]
              /\ mvs'[src.name][src.version] = mvs[src.name][src.version]

\* C27: copy_model_version creates the destination entity when it does not
\* exist and continues on it when it exists already; any other failure of
\* that creation is propagated and nothing is created; a success creates
\* exactly one version under dst_name, with the source
\* "models:/<src name>/<src version>" and the source version's run id, tags,
\* run link and description, and leaves the source version as it was; a
\* failing version creation is an error, with the destination entity kept.
C27_CopyModelVersion == [][CopyStep => CopiesOneVersionOrFails]_vars

\* version 1 of the prompt p was copied into the existing entity p as version 3
C27_Witness ==
    /\ ret.op = "copy_model_version" /\ ret.out = "mv"
    /\ ret.name = "p" /\ ret.src_mv.name = "p" /\ ret.src_mv.version = 1
    /\ ret.pv.version = 3
    /\ mvs["p"][3].source = "models:/p/1"
    /\ mvs["p"][3].tags = mvs["p"][1].tags

\* a version of p was copied into m, which did not exist and was created
C27_WitnessNewEntity ==
    /\ ret.op = "copy_model_version" /\ ret.out = "mv"
    /\ ret.name = "m" /\ ret.pv.version = 1
    /\ rm["m"] = [exists |-> TRUE, tags |-> NoTags]
    /\ mvs["m"][1].source = "models:/p/2"

\* the creation of the version failed and the entity created for it remains
C27_WitnessVersionFails ==
    /\ ret.op = "copy_model_version" /\ ret.err = "CopyFailed"
    /\ ret.name = "m" /\ rm["m"].exists /\ ~mvs["m"][1].exists

\* C28: get_prompt never raises and writes nothing: whether the store's
\* get_registered_model returns the entity, reports it missing or fails in
\* any other way, get_prompt returns a Prompt or None, and that one
\* get_registered_model call is the only store call it makes.
C28_GetPromptIsTotal ==
    ret.op = "get_prompt"
    => /\ ret.out \in {"prompt", "none"}
       /\ ret.err = "none"
       /\ ret.calls = <<StoreCall("get_registered_model", ret.name, 0, "", Absent)>>
       /\ ~ret.changed
       /\ ret.fault = "error" => ret.out = "none"
       /\ ret.out = "prompt" => rm[ret.name].tags[IS_PROMPT_TAG_KEY] = TV("true")

\* get_registered_model failed for the existing prompt p, and get_prompt
\* returned None
C28_Witness ==
    /\ ret.op = "get_prompt" /\ ret.name = "p" /\ ret.fault = "error"
    /\ rm["p"].exists /\ rm["p"].tags[IS_PROMPT_TAG_KEY] = TV("true")
    /\ ret.out = "none"

\* the entity does not exist, and get_prompt returned None
C28_WitnessMissing ==
    /\ ret.op = "get_prompt" /\ ret.name = "ghost" /\ ret.fault = "none"
    /\ ret.out = "none"

----------------------------------------------------------------------------
(* Further properties of link_prompt_version_to_model / _to_run (SpecLink) *)

\* the entry of the prompt version the call of thread t resolved
ResolvedEntry(t) == EntryOf(thr[t].pv.name, PyStr(Numeral[thr[t].pv.version]))

\* C29: link_prompt_version_to_model and link_prompt_version_to_run write no
\* link for a prompt version that does not resolve: when get_prompt_version
\* returns None or raises, the call fails, issues no tag write and does not
\* leave the lock held; when it resolves, the entry linked has the name and,
\* as a string, the version number of the resolved PromptVersion, also for a
\* version given as an alias.
C29_UnresolvedVersionNotLinked ==
    \A t \in Threads :
       thr[t].op \in {"model", "run"}
       => /\ thr[t].pv.out # "pv"
             => /\ thr[t].wrote = 0 /\ thr[t].pc # "write"
                /\ thr[t].pv.out = "raise" => thr[t].pc = "done"
                /\ thr[t].pc \in {"release", "done"} => thr[t].err # "none"
                /\ thr[t].pc = "done" => lock[thr[t].self].owner # t
          /\ thr[t].pv.out = "pv"
             => /\ thr[t].pv.name = thr[t].args[1].name
                /\ LET v == thr[t].args[1].version.s
                   IN  thr[t].pv.version = IF NumeralValue(v) # 0 THEN NumeralValue(v)
                                           ELSE LinkRegistry.aliases[thr[t].pv.name][v]
                /\ thr[t].pc = "write" \/ thr[t].wrote = 1
                   => /\ Contains(thr[t].upd.items, ResolvedEntry(t))
                      /\ \A i \in Len(ItemsOf(thr[t].cur)) + 1..Len(thr[t].upd.items) :
                            thr[t].upd.items[i] = ResolvedEntry(t)

\* a call with the alias prod has written the entry of version 2, and a call
\* for a version that is no prompt version has failed inside the with block
C29_Witness ==
    \E t, u \in Threads :
       /\ thr[t].op \in {"model", "run"} /\ thr[t].args[1].version = PyStr("prod")
       /\ thr[t].pc = "done" /\ thr[t].wrote = 1
       /\ target[thr[t].tid].tag.kind = "array"
       /\ Contains(target[thr[t].tid].tag.items, EntryOf("p", PyStr("2")))
       /\ thr[u].op \in {"model", "run"} /\ thr[u].pv.out = "none"
       /\ thr[u].pc = "done" /\ thr[u].err = "AttributeError"

\* the fetches and sleeps of a call so far: none for a version that was not
\* pending when the call was made, one sleep between two fetches, and no
\* sleep after a fetch that found the version no longer pending
FetchesAndSleepsAlternate ==
    /\ poll.pc # "idle" /\ poll.first # PENDING_REGISTRATION
       => poll.fetches = 0 /\ poll.sleeps = 0
    /\ poll.sleeps <= poll.fetches
    /\ poll.fetches <= poll.sleeps + 1
    /\ poll.pc = "sleep" => poll.mv.status = PENDING_REGISTRATION
    /\ poll.fetches > 0 /\ poll.mv.status # PENDING_REGISTRATION
       => poll.sleeps = poll.fetches - 1 /\ poll.pc \in {"final", "done"}

\* a fetch is made only with PENDING_REGISTRATION observed last and after a
\* deadline check that found the clock not past the deadline; a sleep comes
\* after a fetch that observed PENDING_REGISTRATION and lasts 3 units
FetchOnlyWhilePending ==
    /\ poll'.pc = "fetch" /\ poll.pc # "fetch"
       => /\ poll.pc = "check"
          /\ clock <= poll.max_time
          /\ poll.mv.status = PENDING_REGISTRATION
    /\ poll'.fetches # poll.fetches
       => /\ poll.pc = "fetch"
          /\ poll'.fetches = poll.fetches + 1
          /\ poll.mv.status = PENDING_REGISTRATION
          /\ poll.sleeps = poll.fetches
    /\ poll'.sleeps # poll.sleeps
       => /\ poll.pc = "sleep"
          /\ poll'.sleeps = poll.sleeps + 1
          /\ poll.sleeps = poll.fetches - 1
          /\ poll.mv.status = PENDING_REGISTRATION
          /\ clock' = clock + 3

\* C30: the poller re-fetches the status only when the status it observed
\* last is PENDING_REGISTRATION and its deadline check found the clock not
\* strictly past the deadline; for a version that is not pending when the
\* call is made it fetches and sleeps zero times; between two consecutive
\* fetches it sleeps exactly once, for 3 units; and it does not sleep after
\* a fetch that observed a non-pending status.
C30_FetchOnlyWhilePending ==
    /\ []FetchesAndSleepsAlternate
    /\ [][FetchOnlyWhilePending]_vars

\* the second fetch, one sleep after the first, found the version READY, and
\* the call returned without another sleep
C30_Witness ==
    /\ poll.pc = "done" /\ poll.first = PENDING_REGISTRATION
    /\ poll.fetches = 2 /\ poll.sleeps = 1
    /\ poll.mv.status = READY /\ poll.out.kind = "ok"

\* called for a version that had failed registration, the poller raised
\* without a fetch
C30_WitnessNotPending ==
    /\ poll.pc = "done" /\ poll.first = FAILED_REGISTRATION
    /\ poll.fetches = 0 /\ poll.sleeps = 0
    /\ poll.out.kind = "CreationFailed"

====
